---------------------------- MODULE Spec2Model ----------------------------
(***************************************************************************)
(* A model of clox (belyivadim/clox): the bytecode compiler, the stack VM, *)
(* the interning hash table and the mark-and-sweep collector.              *)
(*                                                                         *)
(* The whole interpreter state (struct Vm, the heap it owns, the chain of  *)
(* active compilers and what has been printed) is one record, `vm`; every  *)
(* C function that changes it is an operator from a state record to a      *)
(* state record, so that a handler which allocates in the middle (and may  *)
(* therefore run a collection there) is still one atomic step.             *)
(***************************************************************************)
EXTENDS Integers, Sequences, FiniteSets, TLC

VARIABLES
    vm,      \* struct Vm + heap + current_compiler chain + stdout (+ audit history)
    pc,      \* position of the driver (main.c): "main", "file", "repl", "run", "exit"
    lines,   \* the source lines already handed to vm_interpret in this process
    status,  \* what the last vm_interpret returned
    ref,     \* the observable behaviour of the first (default build) run, kept for
             \* comparison with the run of the stress build
    abs,     \* SpecTable: the abstract map the globals table must implement
    tableOp, \* SpecTable: the last table operation and what it returned
    main     \* main.c main: its argc and the exit_code it returns

vars == <<vm, pc, lines, status, ref, abs, tableOp, main>>

(***************************************************************************)
(* Bounds of the model (not program constants).                            *)
(***************************************************************************)
MaxObj == 40
    \* heap addresses 1..MaxObj; when none is left realloc fails and the process exits
MaxLines == 2
    \* REPL lines interpreted by one process
MaxOps == 6
    \* table_set / table_delete calls applied in SpecTable

MaxStatements == 3
    \* statements in a line that is typed as a text

NULL == 0
Addr == 1..MaxObj

\* where the model keeps the object of an allocation that failed: the process
\* exits inside reallocate, and nothing done with that object is ever seen
Limbo == MaxObj + 1

(***************************************************************************)
(* value.h: tagged values.  BOOL_VAL carries 0/1, NIL_VAL carries the 0    *)
(* the macro stores into the union.                                        *)
(***************************************************************************)
NIL_VAL == [kind |-> "nil", as |-> 0]
BOOL_VAL(b) == [kind |-> "bool", as |-> IF b THEN 1 ELSE 0]
NUMBER_VAL(n) == [kind |-> "number", as |-> n]
OBJ_VAL(p) == [kind |-> "obj", as |-> p]
IS_OBJ(v) == v.kind = "obj"
IS_NIL(v) == v.kind = "nil"

\* object.h is_obj_kind: an object value whose header says `kind`
is_obj_kind(heap, v, kind) == IS_OBJ(v) /\ heap[v.as].kind = kind

\* value.c values_equal
values_equal(lhs, rhs) ==
    IF lhs.kind # rhs.kind THEN FALSE
    ELSE IF lhs.kind = "nil" THEN TRUE
    ELSE lhs.as = rhs.as

(***************************************************************************)
(* memory.h                                                                *)
(***************************************************************************)
MEM_MIN_CAPACITY == 8
MEM_GROW_FACTOR == 2
GROW_CAPACITY(capacity) ==
    IF capacity < MEM_MIN_CAPACITY THEN MEM_MIN_CAPACITY ELSE capacity * MEM_GROW_FACTOR

(***************************************************************************)
(* object.c string_hash: FNV-1a over the bytes, in u32 arithmetic.  A u32  *)
(* is kept as <<high 16 bits, low 16 bits>>; the offset basis 2166136261   *)
(* is <<33052, 40389>> and the prime 16777619 is 2^24 + 403.               *)
(***************************************************************************)
string_hash(key) ==
    LET RECURSIVE xor(_, _)
        xor(a, b) == IF a = 0 THEN b
                     ELSE IF b = 0 THEN a
                     ELSE ((a + b) % 2) + 2 * xor(a \div 2, b \div 2)
        mul(h) == LET lo == h[2] * 403
                      hi == h[1] * 403 + (lo \div 65536) + (h[2] % 256) * 256
                  IN <<hi % 65536, lo % 65536>>
        RECURSIVE go(_, _)
        go(h, i) == IF i > Len(key) THEN h
                    ELSE go(mul(<<h[1], xor(h[2], key[i])>>), i + 1)
    IN go(<<33052, 40389>>, 1)

\* hash % capacity for a capacity that divides 2^16 (capacities are 8 * 2^k)
HashIndex(hash, capacity) == hash[2] % capacity

(***************************************************************************)
(* Sizes of the C types on the LP64 target (object.h, value.h, table.h).   *)
(***************************************************************************)
sizeof(type) ==
    CASE type = "char" -> 1
      [] type = "u8" -> 1
      [] type = "i32" -> 4
      [] type = "ptr" -> 8
      [] type = "LineCodeIndexPair" -> 8
      [] type = "Value" -> 16
      [] type = "Entry" -> 24
      [] type = "ObjString" -> 48
      [] type = "ObjFunction" -> 88
      [] type = "ObjNative" -> 40
      [] type = "ObjClosure" -> 48
      [] type = "ObjUpvalue" -> 56
      [] type = "ObjClass" -> 56
      [] type = "ObjInstance" -> 56
      [] type = "ObjBoundMethod" -> 48

(***************************************************************************)
(* table.h / table.c.  A Table is [count, capacity, tombstones_count,      *)
(* entries]; entries is the bucket array (bucket i of C is entries[i+1]).  *)
(* A table lives in the Vm (globals, strings) or inside a heap object      *)
(* (methods of a class, fields of an instance); `loc` says where, so that  *)
(* a collection started by growing the table works on the same table.      *)
(***************************************************************************)
RECURSIVE reallocate(_, _, _)

\* The call graph of the program is cyclic: reallocate calls collect_garbage,
\* whose sweep calls object_free, which calls reallocate.  Run (defined next
\* to the REPL) is the one recursive operator that closes the cycle: every
\* entry into the program and every collection is a Run of the state.
RECURSIVE Run(_, _)

\* table.c table_init
table_init == [count |-> 0, capacity |-> 0, tombstones_count |-> 0, entries |-> <<>>]

GlobalsLoc == <<"globals", NULL>>
StringsLoc == <<"strings", NULL>>

TableAt(s, loc) ==
    CASE loc[1] = "globals" -> s.globals
      [] loc[1] = "strings" -> s.strings
      [] loc[1] = "methods" -> s.heap[loc[2]].methods
      [] loc[1] = "fields" -> s.heap[loc[2]].fields

WithTable(s, loc, t) ==
    CASE loc[1] = "globals" -> [s EXCEPT !.globals = t]
      [] loc[1] = "strings" -> [s EXCEPT !.strings = t]
      [] loc[1] = "methods" -> [s EXCEPT !.heap[loc[2]].methods = t]
      [] loc[1] = "fields" -> [s EXCEPT !.heap[loc[2]].fields = t]

\* find_entry that stops at the first tombstone as if it were an empty bucket
find_entry_stops_at_tombstone(heap, entries, capacity, key) ==
    LET RECURSIVE probe(_)
        probe(index) ==
            LET pentry == entries[index + 1]
            IN IF pentry.key = NULL \/ key = pentry.key THEN index
               ELSE probe((index + 1) % capacity)
    IN probe(HashIndex(heap[key].hash, capacity))

\* table.c find_entry: the bucket (0-based) holding `key`, or else the first
\* tombstone met, or else the empty bucket that ended the probe
find_entry(heap, entries, capacity, key) ==
    LET RECURSIVE probe(_, _)
        probe(index, tombstone) ==
            LET pentry == entries[index + 1]
                next == (index + 1) % capacity
            IN IF pentry.key = NULL
               THEN IF IS_NIL(pentry.value)
                    THEN (IF tombstone # -1 THEN tombstone ELSE index)
                    ELSE probe(next, IF tombstone = -1 THEN index ELSE tombstone)
               ELSE IF key = pentry.key THEN index
               ELSE probe(next, tombstone)
    IN probe(HashIndex(heap[key].hash, capacity), -1)

\* table.c adjust_capacity, from the rehash on: s1 is the state once the new
\* bucket array is allocated
adjust_capacity_rehash(s1, loc, capacity) ==
    CASE s1.exited \in BOOLEAN ->
    LET table == TableAt(s1, loc)
        empty == [i \in 1..capacity |-> [key |-> NULL, value |-> NIL_VAL]]
        RECURSIVE copy(_, _)
        copy(entries, i) ==
            IF i >= table.capacity THEN entries
            ELSE LET pentry == table.entries[i + 1]
                     dest == find_entry(s1.heap, entries, capacity, pentry.key)
                 IN IF pentry.key = NULL THEN copy(entries, i + 1)
                    ELSE copy([entries EXCEPT ![dest + 1] = pentry], i + 1)
    IN WithTable(Run(s1, [name |-> "reallocate", old_size |-> sizeof("Entry") * table.capacity, new_size |-> 0]), loc,
                 [table EXCEPT !.entries = copy(empty, 0),
                               !.capacity = capacity,
                               !.tombstones_count = 0])

\* table.c adjust_capacity
adjust_capacity(s, loc, capacity) ==
    adjust_capacity_rehash(Run(s, [name |-> "reallocate", old_size |-> 0, new_size |-> sizeof("Entry") * capacity]), loc, capacity)

\* the load test of table_set without the tombstones
TableMustGrow_live_only(table) == 3 * table.capacity <= 4 * table.count

\* TABLE_MAX_LOAD is .75: capacity * .75 <= n  iff  3 * capacity <= 4 * n
TableMustGrow(table) == 3 * table.capacity <= 4 * (table.count + table.tombstones_count)

\* table.c table_set; .r is the returned is_new_key
table_set(s, loc, key, value) ==
    CASE s.exited \in BOOLEAN ->
    LET store(s1) ==
            LET table == TableAt(s1, loc)
                pentry == find_entry(s1.heap, table.entries, table.capacity, key)
                is_new_key == table.entries[pentry + 1].key = NULL
            IN [s |-> WithTable(s1, loc,
                        [table EXCEPT !.count = @ + (IF is_new_key THEN 1 ELSE 0),
                                      !.entries[pentry + 1] = [key |-> key, value |-> value]]),
                r |-> is_new_key]
    IN store(IF TableMustGrow(TableAt(s, loc))
             THEN adjust_capacity(s, loc, GROW_CAPACITY(TableAt(s, loc).capacity))
             ELSE s)

\* table.c table_get; .r is the returned bool, .value what *value holds then
table_get(heap, table, key) ==
    LET at(pentry) ==
            IF table.entries[pentry + 1].key = NULL
            THEN [r |-> FALSE, value |-> NIL_VAL]
            ELSE [r |-> TRUE, value |-> table.entries[pentry + 1].value]
    IN IF 0 = table.count THEN [r |-> FALSE, value |-> NIL_VAL]
       ELSE at(find_entry(heap, table.entries, table.capacity, key))

\* table.c table_delete on a table value; .t is the table afterwards
table_delete(heap, table, key) ==
    LET at(pentry) ==
            IF table.entries[pentry + 1].key = NULL THEN [t |-> table, r |-> FALSE]
            ELSE [t |-> [table EXCEPT !.entries[pentry + 1] =
                                          [key |-> NULL, value |-> BOOL_VAL(TRUE)],
                                      !.count = @ - 1,
                                      !.tombstones_count = @ + 1],
                  r |-> TRUE]
    IN IF 0 = table.count THEN [t |-> table, r |-> FALSE]
       ELSE at(find_entry(heap, table.entries, table.capacity, key))

\* table.c table_find_string: the interned string with these bytes, or NULL
table_find_string(heap, table, chars, hash) ==
    IF 0 = table.count THEN NULL
    ELSE LET RECURSIVE probe(_)
             probe(index) ==
                 LET pentry == table.entries[index + 1]
                     next == (index + 1) % table.capacity
                 IN IF pentry.key = NULL
                    THEN (IF IS_NIL(pentry.value) THEN NULL ELSE probe(next))
                    ELSE IF /\ Len(heap[pentry.key].chars) = Len(chars)
                            /\ heap[pentry.key].hash = hash
                            /\ heap[pentry.key].chars = chars
                    THEN pentry.key
                    ELSE probe(next)
         IN probe(HashIndex(hash, table.capacity))

\* table.h mark_table / table_remove_white are declared in table.h but their
\* bodies are not part of the sources; they follow spec.md 4.6: mark every key
\* and value of the table; delete every entry whose key is not marked.
table_remove_white(heap, table) ==
    LET RECURSIVE go(_, _)
        go(t, i) ==
            IF i >= t.capacity THEN t
            ELSE LET pentry == t.entries[i + 1]
                 IN IF pentry.key # NULL /\ ~heap[pentry.key].is_marked
                    THEN go(table_delete(heap, t, pentry.key).t, i + 1)
                    ELSE go(t, i + 1)
    IN go(table, 0)

(***************************************************************************)
(* memory.c: the collector.  The heap is s.heap, a function from addresses *)
(* to object records [kind, is_marked, freed, ...]; s.objects is the       *)
(* intrusive list vm->objects (head first).  A freed object keeps the      *)
(* bytes it had when it was freed (freed = TRUE) until the allocator hands *)
(* the address out again.                                                  *)
(***************************************************************************)
Live(heap, a) == a # NULL /\ heap[a].kind # "none" /\ ~heap[a].freed

\* memory.c mark_object
mark_object(s, pobj) ==
    CASE s.exited \in BOOLEAN ->
    IF pobj = NULL \/ s.heap[pobj].is_marked THEN s
    ELSE [s EXCEPT !.heap[pobj].is_marked = TRUE,
                   !.gray_stack = Append(@, pobj)]

\* memory.c mark_value
mark_value(s, value) == IF ~IS_OBJ(value) THEN s ELSE mark_object(s, value.as)

\* memory.c mark_array
mark_array(s, values) ==
    CASE s.exited \in BOOLEAN ->
    Run(s, [name |-> "for_each", visit |-> "mark_value", over |-> values,
            lo |-> 1, hi |-> Len(values)])

\* table.h mark_table (body as in spec.md 4.6: every key and every value)
mark_table(s, table) ==
    CASE s.exited \in BOOLEAN ->
    Run(s, [name |-> "for_each", visit |-> "mark_entry", over |-> table.entries,
            lo |-> 1, hi |-> table.capacity])

\* compiler.c mark_compiler_roots: s.compilers is the penclosing chain,
\* outermost first, current_compiler last
mark_compiler_roots(s) ==
    CASE s.exited \in BOOLEAN ->
    LET RECURSIVE go(_, _)
        go(t, i) == CASE t.exited \in BOOLEAN ->
                    IF i < 1 THEN t ELSE go(mark_object(t, s.compilers[i].pfun), i - 1)
    IN go(s, Len(s.compilers))

\* the list vm->open_upvalues, following ->next
OpenUpvalues(s) ==
    LET RECURSIVE go(_, _)
        go(u, n) == IF u = NULL \/ n = 0 THEN <<>>
                    ELSE <<u>> \o go(s.heap[u].next, n - 1)
    IN go(s.open_upvalues, MaxObj)

\* memory.c mark_roots
mark_roots(s) ==
    CASE s.exited \in BOOLEAN ->
    LET RECURSIVE frames(_, _)
        frames(t, i) == IF i > Len(s.frames) THEN t
                        ELSE frames(mark_object(t, s.frames[i].pclosure), i + 1)
        ups == OpenUpvalues(s)
        RECURSIVE upvalues(_, _)
        upvalues(t, i) == IF i > Len(ups) THEN t
                          ELSE upvalues(mark_object(t, ups[i]), i + 1)
        globals(t) == mark_table(t, t.globals)
    IN mark_compiler_roots(globals(upvalues(frames(mark_array(s, s.stack), 1), 1)))

\* memory.c blacken_object
blacken_object(s, pobj) ==
    CASE s.exited \in BOOLEAN ->
    LET o == s.heap[pobj]
    IN CASE o.kind = "class" -> mark_object(s, o.name)
         [] o.kind = "closure" ->
                LET RECURSIVE go(_, _)
                    go(t, i) == IF i > o.upvalue_count THEN t
                                ELSE go(mark_object(t, o.upvalues[i]), i + 1)
                IN go(mark_object(s, o.pfun), 1)
         [] o.kind = "function" ->
                mark_array(mark_object(s, o.name), o.chunk.constants.values)
         [] o.kind = "upvalue" -> mark_value(s, o.closed)
         [] OTHER -> s

\* memory.c trace_references, a turn of the while loop
trace_references_turn(s) ==
    IF Len(s.gray_stack) = 0 THEN s
    ELSE blacken_object([s EXCEPT !.gray_stack = SubSeq(@, 1, Len(@) - 1)],
                        s.gray_stack[Len(s.gray_stack)])

\* memory.c trace_references: an object turns gray once in a collection, so
\* MaxObj + 1 turns empty the stack
trace_references(s) ==
    CASE s.exited \in BOOLEAN ->
    Run(s, [name |-> "for_each", visit |-> "turn", over |-> <<>>, lo |-> 1, hi |-> MaxObj + 1])

\* chunk.c chunk_free, as the bytes it releases and the chunk it leaves
chunk_init == [code |-> <<>>, code_capacity |-> 0,
               lines |-> <<>>, lines_capacity |-> 0,
               constants |-> [values |-> <<>>, capacity |-> 0]]

\* history only: a block obtained with `block` bytes has been released, and
\* reallocate was told it had `told` bytes.  audit.held is the total size of
\* the blocks obtained through reallocate and not released; reallocate
\* itself takes a block to have the size it is told
Released(s, block, told) == [s EXCEPT !.audit.held = @ - (block - told)]

\* memory.c object_free: classes, instances and bound methods have no case
\* that releases what they own (instances and bound methods have no case)
object_free(s, pobj) ==
    CASE s.exited \in BOOLEAN ->
    LET o == s.heap[pobj]
        FREE(t, size) == Run(t, [name |-> "reallocate", old_size |-> size, new_size |-> 0])
        gone(t) == [t EXCEPT !.heap[pobj].freed = TRUE]
    IN CASE o.kind = "class" -> gone(FREE(s, sizeof("ObjClass")))
         [] o.kind = "string" ->
                gone(FREE(Released(FREE(s, sizeof("char") * (Len(o.chars) + 1)), o.block,
                                   sizeof("char") * (Len(o.chars) + 1)),
                          sizeof("ObjString")))
         [] o.kind = "native" -> gone(FREE(s, sizeof("ObjNative")))
         [] o.kind = "function" ->
                LET chunk_free(t) ==
                        [FREE(FREE(FREE(t, sizeof("u8") * o.chunk.code_capacity),
                                   sizeof("LineCodeIndexPair") * o.chunk.lines_capacity),
                              sizeof("Value") * o.chunk.constants.capacity)
                            EXCEPT !.heap[pobj].chunk = chunk_init]
                IN gone(FREE(chunk_free(s), sizeof("ObjFunction")))
         [] o.kind = "closure" ->
                gone(FREE(FREE(s, sizeof("ptr") * o.upvalue_count), sizeof("ObjClosure")))
         [] o.kind = "upvalue" -> gone(FREE(s, sizeof("ObjUpvalue")))
         [] OTHER -> s

\* the body of the loop of sweep that leaves the mark of a survivor set
sweep_unlink_keeps_mark(s, pobj) ==
    LET without(list) == LET other(a) == a # pobj IN SelectSeq(list, other)
    IN IF s.heap[pobj].is_marked THEN s
       ELSE object_free([s EXCEPT !.objects = without(s.objects)], pobj)

\* memory.c sweep, the body of the loop for one object of the list
sweep_unlink(s, pobj) ==
    LET without(list) == LET other(a) == a # pobj IN SelectSeq(list, other)
    IN IF s.heap[pobj].is_marked
       THEN [s EXCEPT !.heap[pobj].is_marked = FALSE]
       ELSE object_free([s EXCEPT !.objects = without(s.objects)], pobj)

\* memory.c sweep: the loop over the list as it was when the sweep began
sweep(s) ==
    CASE s.exited \in BOOLEAN ->
    Run(s, [name |-> "for_each", visit |-> "unlink", over |-> s.objects,
            lo |-> 1, hi |-> Len(s.objects)])

\* a loop of the collector: the body op.visit for i = op.lo .. op.hi in turn.
\* The range is cut in eight and each part is finished before the next begins
for_each(s, op) ==
    IF op.lo > op.hi THEN s
    ELSE IF op.lo = op.hi
    THEN CASE op.visit = "mark_value" -> mark_value(s, op.over[op.lo])
           [] op.visit = "mark_entry" -> mark_value(mark_object(s, op.over[op.lo].key),
                                                    op.over[op.lo].value)
           [] op.visit = "turn" -> trace_references_turn(s)
           [] op.visit = "unlink" -> sweep_unlink(s, op.over[op.lo])
           [] op.visit = "free" -> object_free(s, op.over[op.lo])
    ELSE LET n == (op.hi - op.lo) \div 8 + 1
             part(t, k) == Run(t, [op EXCEPT !.lo = op.lo + (k - 1) * n,
                                             !.hi = IF k < 8 /\ op.lo + k * n - 1 < op.hi
                                                    THEN op.lo + k * n - 1 ELSE op.hi])
             t1 == part(s, 1)
             t2 == part(t1, 2)
             t3 == part(t2, 3)
             t4 == part(t3, 4)
             t5 == part(t4, 5)
             t6 == part(t5, 6)
             t7 == part(t6, 7)
         IN CASE <<t1.exited, t2.exited, t3.exited, t4.exited,
                   t5.exited, t6.exited, t7.exited>> # <<>> -> part(t7, 8)
(***************************************************************************)
(* What a collection must preserve, written from the object graph rather   *)
(* than from the collector: the roots mark_roots starts from, and the      *)
(* references each kind of object holds.                                   *)
(***************************************************************************)
SeqRange(q) == {q[i] : i \in 1..Len(q)}

ValueObjs(values) == {v.as : v \in {w \in values : IS_OBJ(w)}}

TableObjs(table) ==
    ({e.key : e \in SeqRange(table.entries)} \ {NULL})
        \cup ValueObjs({e.value : e \in {x \in SeqRange(table.entries) : x.key # NULL}})

RootSet(s) ==
    (ValueObjs(SeqRange(s.stack))
        \cup {f.pclosure : f \in SeqRange(s.frames)}
        \cup SeqRange(OpenUpvalues(s))
        \cup TableObjs(s.globals)
        \cup {c.pfun : c \in SeqRange(s.compilers)}) \ {NULL}

TraceEdges(heap, a) ==
    LET o == heap[a]
    IN (CASE o.kind = "closure" -> {o.pfun} \cup SeqRange(o.upvalues)
          [] o.kind = "function" -> {o.name} \cup ValueObjs(SeqRange(o.chunk.constants.values))
          [] o.kind = "upvalue" -> ValueObjs({o.closed})
          [] o.kind = "class" -> {o.name} \cup TableObjs(o.methods)
          [] o.kind = "instance" -> {o.cls} \cup TableObjs(o.fields)
          [] o.kind = "bound_method" -> ValueObjs({o.receiver}) \cup {o.method}
          [] OTHER -> {}) \ {NULL}

OnHeap(s, a) == Live(s.heap, a) /\ a \in SeqRange(s.objects)

\* everything reachable from `from`; references out of an object that is no
\* longer on the heap are not followed
Reachable(s, from) ==
    LET RECURSIVE go(_, _)
        go(seen, frontier) ==
            IF frontier = {} THEN seen
            ELSE LET next == UNION {TraceEdges(s.heap, a) : a \in {b \in frontier : OnHeap(s, b)}}
                 IN go(seen \cup frontier, next \ (seen \cup frontier))
    IN go({}, from)

InternKeys(s) == {e.key : e \in SeqRange(s.strings.entries)} \ {NULL}

LiveStrings(s) == {a \in SeqRange(s.objects) : Live(s.heap, a) /\ s.heap[a].kind = "string"}

\* bookkeeping at the end of a collection (history only, the program never reads it):
\* `before` is the state the collection started from, `after` the one it ends in
Audit(before, after) ==
    LET swept == {a \in SeqRange(before.objects) : ~OnHeap(after, a)}
    IN [after EXCEPT
          !.audit.gc_count = IF @ < 3 THEN @ + 1 ELSE @,
          !.audit.lost = @ \cup {a \in Reachable(before, RootSet(before)) : a \in swept},
          !.audit.init_dead = @ \/ (after.init_string # NULL
                                     /\ ~OnHeap(after, after.init_string)),
          !.audit.built_freed = @ \cup (before.building \cap swept),
          !.audit.intern_bad = @ \/ InternKeys(after) # LiveStrings(after),
          !.audit.marks_carried = @ \/ before.gray_stack # <<>>
                                    \/ \E a \in SeqRange(before.objects) :
                                          before.heap[a].is_marked,
          !.audit.last = [request |-> before.audit.request,
                          bytes_allocated |-> before.bytes_allocated,
                          next_gc |-> before.next_gc,
                          left |-> after.bytes_allocated]]

\* memory.c collect_garbage
collect_garbage(s) ==
    CASE s.exited \in BOOLEAN ->
    LET marked == mark_roots(s)
        traced == trace_references(marked)
        white == [traced EXCEPT !.strings = table_remove_white(traced.heap, traced.strings)]
        swept == sweep(white)
        after == [swept EXCEPT !.next_gc = swept.bytes_allocated * 2]
    IN \* the four calls in the order the code makes them
       CASE <<marked.exited, traced.exited, swept.exited>> # <<>> -> Audit(s, after)

\* memory.c reallocate, the block under #ifdef DEBUG_STRESS_GC; s.stress says
\* whether the build defines it
reallocate_stress(s) ==
    IF s.stress THEN Run(s, [name |-> "collect_garbage"]) ELSE s

\* the threshold test that lets every growth collect
reallocate_threshold_ignored(s) ==
    CASE s.exited \in BOOLEAN ->
    Run(s, [name |-> "collect_garbage"])

\* memory.c reallocate, the threshold test
reallocate_threshold(s) ==
    CASE s.exited \in BOOLEAN ->
    IF s.bytes_allocated > s.next_gc THEN Run(s, [name |-> "collect_garbage"]) ELSE s

\* memory.c reallocate: the accounting and the decision to collect
\* (audit.request, history only, is the request being served)
reallocate(s, old_size, new_size) ==
    CASE s.exited \in BOOLEAN ->
    LET account(t) == [t EXCEPT !.bytes_allocated = @ + new_size - old_size,
                                !.audit.held = @ + new_size - old_size]
        serving(t) == [t EXCEPT !.audit.request = <<old_size, new_size>>]
        served(t) == [t EXCEPT !.audit.request = <<0, 0>>]
    IN IF new_size > old_size
       THEN served(reallocate_threshold(serving(reallocate_stress(serving(account(s))))))
       ELSE served(account(serving(s)))

\* what malloc returns for an object of `kind`: a block of that size freed
\* earlier (when the allocator recycles, s.reuse) or the lowest block never
\* used; NULL when the arena is exhausted
NewAddress(s, kind) ==
    LET recycled == {a \in Addr : s.heap[a].kind = kind /\ s.heap[a].freed}
        fresh == {a \in Addr : s.heap[a].kind = "none"}
        Min(S) == CHOOSE a \in S : \A b \in S : a <= b
    IN IF s.reuse /\ recycled # {} THEN Min(recycled)
       ELSE IF fresh # {} THEN Min(fresh)
       ELSE NULL

\* object.c object_allocate; `fields` is what the caller stores into the new
\* object right after.  .r is the new object
object_allocate(s, size, kind, fields) ==
    CASE s.exited \in BOOLEAN ->
    LET header == [kind |-> kind, is_marked |-> FALSE, freed |-> FALSE]
        obj == [f \in DOMAIN header \cup DOMAIN fields |->
                    IF f \in DOMAIN header THEN header[f] ELSE fields[f]]
        place(s1, a) ==
            IF a = NULL
            THEN [s |-> [s1 EXCEPT !.exited = TRUE, !.heap[Limbo] = obj], r |-> Limbo]
            ELSE [s |-> [s1 EXCEPT !.heap[a] = obj, !.objects = <<a>> \o @], r |-> a]
        malloc(s1) == place(s1, NewAddress(s1, kind))
    IN malloc(Run(s, [name |-> "reallocate", old_size |-> 0, new_size |-> size]))

(***************************************************************************)
(* object.c: constructors.  Each returns [s |-> state, r |-> new object].  *)
(***************************************************************************)
ALLOCATE(s, type, count) == Run(s, [name |-> "reallocate", old_size |-> 0, new_size |-> sizeof(type) * count])
FREE_ARRAY(s, type, old_count) == Run(s, [name |-> "reallocate", old_size |-> sizeof(type) * old_count, new_size |-> 0])
GROW_ARRAY(s, type, old_count, new_count) ==
    CASE s.exited \in BOOLEAN ->
    Run(s, [name |-> "reallocate", old_size |-> sizeof(type) * old_count, new_size |-> sizeof(type) * new_count])

\* object.c string_allocate, the table_set of the new string `a.r`; `building`
\* names the objects that exist but are not yet stored where the program will
\* keep them (history only)
string_allocate_intern(a, building) ==
    [s |-> [Run([a.s EXCEPT !.building = @ \cup {a.r}], [name |-> "table_set", loc |-> StringsLoc, key |-> a.r, value |-> NIL_VAL]).s
               EXCEPT !.building = building],
     r |-> a.r]

\* object.c string_allocate; `block` is the size the array `chars` was
\* obtained with (history only)
string_allocate(s, chars, hash, block) ==
    CASE s.exited \in BOOLEAN ->
    string_allocate_intern(Run(s, [name |-> "object_allocate", size |-> sizeof("ObjString"), kind |-> "string", fields |-> [chars |-> chars, hash |-> hash, block |-> block]]),
                           s.building)

\* history only: what string_copy / string_create handed back for `chars`
NoteInterned(a, chars) ==
    [a EXCEPT !.s.audit.copy_bad =
        @ \/ ~(Live(a.s.heap, a.r) /\ a.s.heap[a.r].kind = "string"
                                   /\ a.s.heap[a.r].chars = chars)]

\* object.c string_copy
string_copy(s, chars) ==
    CASE s.exited \in BOOLEAN ->
    LET hash == string_hash(chars)
        interned == table_find_string(s.heap, s.strings, chars, hash)
    IN NoteInterned(IF NULL # interned THEN [s |-> s, r |-> interned]
                    ELSE string_allocate(ALLOCATE(s, "char", Len(chars) + 1), chars, hash,
                                         sizeof("char") * (Len(chars) + 1)),
                    chars)

\* object.c string_create: takes ownership of an array the caller allocated;
\* `block` is the size the array was obtained with (history only)
string_create(s, chars, block) ==
    CASE s.exited \in BOOLEAN ->
    LET hash == string_hash(chars)
        interned == table_find_string(s.heap, s.strings, chars, hash)
    IN NoteInterned(IF NULL # interned
                    THEN [s |-> Released(FREE_ARRAY(s, "char", Len(chars) + 1), block,
                                         sizeof("char") * (Len(chars) + 1)),
                          r |-> interned]
                    ELSE string_allocate(s, chars, hash, block),
                    chars)

\* object.c function_create
function_create(s) ==
    CASE s.exited \in BOOLEAN ->
    Run(s, [name |-> "object_allocate", size |-> sizeof("ObjFunction"), kind |-> "function", fields |-> [arity |-> 0, upvalue_count |-> 0, name |-> NULL, chunk |-> chunk_init]])

\* object.c closure_create
closure_create(s, pfun) ==
    CASE s.exited \in BOOLEAN ->
    LET n == s.heap[pfun].upvalue_count
        s1 == ALLOCATE(s, "ptr", n)
    IN Run(s1, [name |-> "object_allocate", size |-> sizeof("ObjClosure"), kind |-> "closure", fields |-> [pfun |-> pfun, upvalues |-> [i \in 1..n |-> NULL],
                        upvalue_count |-> n]])

\* object.c native_create
native_create(s, pfun, arity) ==
    CASE s.exited \in BOOLEAN ->
    Run(s, [name |-> "object_allocate", size |-> sizeof("ObjNative"), kind |-> "native", fields |-> [pfun |-> pfun, arity |-> arity]])

\* object.c upvalue_create; location is the index of the stack slot
upvalue_create(s, pslot) ==
    CASE s.exited \in BOOLEAN ->
    Run(s, [name |-> "object_allocate", size |-> sizeof("ObjUpvalue"), kind |-> "upvalue", fields |-> [closed |-> NIL_VAL, location |-> pslot, next |-> NULL]])

\* class_create, instance_create and bound_method_create are called by vm.c but
\* are not part of the sources; they follow spec.md 3 (a class has a name and
\* an empty method table, an instance a class and an empty field table, a
\* bound method a receiver and a closure)
class_create(s, name) ==
    CASE s.exited \in BOOLEAN ->
    Run(s, [name |-> "object_allocate", size |-> sizeof("ObjClass"), kind |-> "class", fields |-> [name |-> name, methods |-> table_init]])

instance_create(s, pclass) ==
    CASE s.exited \in BOOLEAN ->
    Run(s, [name |-> "object_allocate", size |-> sizeof("ObjInstance"), kind |-> "instance", fields |-> [cls |-> pclass, fields |-> table_init]])

bound_method_create(s, receiver, method) ==
    CASE s.exited \in BOOLEAN ->
    Run(s, [name |-> "object_allocate", size |-> sizeof("ObjBoundMethod"), kind |-> "bound_method", fields |-> [receiver |-> receiver, method |-> method]])

(***************************************************************************)
(* vm.c: the Vm singleton.                                                 *)
(***************************************************************************)
FRAMES_MAX == 64

\* vm.h STACK_MAX = FRAMES_MAX * U8_COUNT
STACK_MAX == FRAMES_MAX * 256

\* the identifiers vm.c and compiler.c spell out, as bytes
Bytes(str) ==
    CASE str = "init" -> <<105, 110, 105, 116>>
      [] str = "clock" -> <<99, 108, 111, 99, 107>>
      [] str = "readln" -> <<114, 101, 97, 100, 108, 110>>
      [] str = "this" -> <<116, 104, 105, 115>>
      [] str = "super" -> <<115, 117, 112, 101, 114>>
      [] str = "" -> <<>>
      [] str = "A" -> <<65>>
      [] str = "m" -> <<109>>
      [] str = "class" -> <<99, 108, 97, 115, 115>>
      [] str = "print" -> <<112, 114, 105, 110, 116>>
      [] str = "{" -> <<123>>
      [] str = "}" -> <<125>>
      [] str = "(" -> <<40>>
      [] str = ")" -> <<41>>
      [] str = ";" -> <<59>>
      [] str = "+" -> <<43>>
      [] str = "1" -> <<49>>
      [] str = "2" -> <<50>>

\* the static Vm before vm_init has run, in a build with or without
\* DEBUG_STRESS_GC and on an allocator that recycles blocks or does not
BlankVm(stress, reuse) ==
    [heap |-> [a \in Addr \cup {Limbo} |-> [kind |-> "none", is_marked |-> FALSE, freed |-> FALSE]],
     objects |-> <<>>,
     stack |-> <<>>,
     above |-> <<>>,
     frames |-> <<>>,
     open_upvalues |-> NULL,
     globals |-> table_init,
     strings |-> table_init,
     init_string |-> NULL,
     bytes_allocated |-> 0,
     next_gc |-> 0,
     gray_stack |-> <<>>,
     compilers |-> <<>>,
     classes |-> <<>>,
     had_error |-> FALSE,
     parser |-> [tokens |-> <<>>, pos |-> 1, panic_mode |-> FALSE, events |-> <<>>,
                 stalled |-> FALSE,
                 current |-> [kind |-> "TOK_EOF", start |-> ""],
                 previous |-> [kind |-> "TOK_EOF", start |-> ""]],
     out |-> <<>>,
     err |-> <<>>,
     trace |-> <<>>,
     stress |-> stress,
     reuse |-> reuse,
     exited |-> FALSE,
     crashed |-> FALSE,
     building |-> {},
     audit |-> [gc_count |-> 0, lost |-> {}, init_dead |-> FALSE,
                built_freed |-> {}, intern_bad |-> FALSE, copy_bad |-> FALSE,
                jumps |-> {}, request |-> <<0, 0>>, marks_carried |-> FALSE,
                held |-> 0,
                last |-> [request |-> <<0, 0>>, bytes_allocated |-> 0, next_gc |-> 0,
                          left |-> 0]]]

\* vm.h Vm.stack is a fixed array in static storage: the slots at and above
\* stack_top keep the last value written to them (`above`, nearest first), and
\* a slot never written holds zero bytes, the Value false
StackAt(s, i) ==
    IF i <= Len(s.stack) THEN s.stack[i]
    ELSE IF i - Len(s.stack) <= Len(s.above) THEN s.above[i - Len(s.stack)]
    ELSE BOOL_VAL(FALSE)

\* *slot = value for stack slot i, live or not
StackPut(s, i, value) ==
    IF i <= Len(s.stack) THEN [s EXCEPT !.stack[i] = value]
    ELSE LET k == i - Len(s.stack)
         IN [s EXCEPT !.above = [j \in 1..(IF k > Len(@) THEN k ELSE Len(@)) |->
                                    IF j = k THEN value
                                    ELSE IF j <= Len(@) THEN @[j] ELSE BOOL_VAL(FALSE)]]

\* stack_top = stack + n, for n at or below the present top
StackTop(s, n) ==
    [s EXCEPT !.stack = SubSeq(@, 1, n),
              !.above = SubSeq(s.stack, n + 1, Len(s.stack)) \o @]

\* vm.c vm_stack_push / vm_stack_pop / vm_stack_peek.  A push with stack_top at
\* the end of stack[] fails the assert, or (NDEBUG) writes the value over the
\* stack_top field that follows the array: the process does not survive it
vm_stack_push(s, value) ==
    IF Len(s.stack) >= STACK_MAX THEN [s EXCEPT !.crashed = TRUE]
    ELSE [s EXCEPT !.stack = Append(@, value),
                   !.above = IF @ = <<>> THEN @ ELSE Tail(@)]
vm_stack_pop(s) == StackTop(s, Len(s.stack) - 1)
vm_stack_peek(s, distance) == s.stack[Len(s.stack) - distance]

\* vm.c vm_stack_reset
vm_stack_reset(s) == [StackTop(s, 0) EXCEPT !.frames = <<>>, !.open_upvalues = NULL]

\* push the object a constructor returned: vm_stack_push(OBJ_VAL(...))
PushObj(a) == vm_stack_push(a.s, OBJ_VAL(a.r))

\* vm.c native_define, the table_set of the two values pushed
native_define_set(s) ==
    CASE s.exited \in BOOLEAN ->
    Run(s, [name |-> "table_set", loc |-> GlobalsLoc, key |-> vm_stack_peek(s, 1).as, value |-> vm_stack_peek(s, 0)]).s

\* vm.c native_define
native_define(s, name, pfun, arity) ==
    CASE s.exited \in BOOLEAN ->
    vm_stack_pop(vm_stack_pop(native_define_set(
        PushObj(native_create(PushObj(Run(s, [name |-> "string_copy", chars |-> Bytes(name)])), pfun, arity)))))

\* vm.c vm_init
vm_init(s) ==
    CASE s.exited \in BOOLEAN ->
    LET s1 == [vm_stack_reset(s) EXCEPT !.objects = <<>>,
                                        !.bytes_allocated = 0,
                                        !.next_gc = 1024 * 1024,
                                        !.gray_stack = <<>>,
                                        !.globals = table_init,
                                        !.strings = table_init,
                                        !.init_string = NULL]
        init_string(a) == [a.s EXCEPT !.init_string = a.r]
    IN native_define(native_define(init_string(Run(s1, [name |-> "string_copy", chars |-> Bytes("init")])),
                                   "clock", "clock_native", 0),
                     "readln", "readln_native", 0)
(***************************************************************************)
(* chunk.h: the opcodes.  chunk.h enumerates OP_CONSTANT .. OP_RETURN; the *)
(* opcodes vm.c and compiler.c use beyond those follow, each long form     *)
(* right after its short form (emit_opcode_with_param emits opcode + 1).   *)
(***************************************************************************)
OpCodes ==
    << "OP_CONSTANT", "OP_CONSTANT_LONG", "OP_NIL", "OP_TRUE", "OP_FALSE",
       "OP_EQUAL", "OP_NOT_EQUAL", "OP_GREATER", "OP_GREATER_EQUAL", "OP_LESS",
       "OP_LESS_EQUAL", "OP_NOT", "OP_NEGATE", "OP_ADD", "OP_SUBSTRACT",
       "OP_MULTIPLY", "OP_DIVIDE", "OP_PRINT", "OP_POP",
       "OP_DEFINE_GLOBAL", "OP_DEFINE_GLOBAL_LONG", "OP_GET_GLOBAL", "OP_GET_GLOBAL_LONG",
       "OP_SET_GLOBAL", "OP_SET_GLOBAL_LONG", "OP_GET_LOCAL", "OP_SET_LOCAL",
       "OP_GET_UPVALUE", "OP_SET_UPVALUE", "OP_JUMP", "OP_JUMP_IF_FALSE", "OP_LOOP",
       "OP_CALL", "OP_CLOSURE", "OP_RETURN" >>

ClassOpCodes ==
    << "OP_CLOSE_UPVALUE", "OP_CLASS", "OP_CLASS_LONG",
       "OP_GET_PROPERTY", "OP_GET_PROPERTY_LONG", "OP_SET_PROPERTY", "OP_SET_PROPERTY_LONG",
       "OP_METHOD", "OP_METHOD_LONG", "OP_INVOKE", "OP_INVOKE_LONG",
       "OP_INHERIT", "OP_GET_SUPER", "OP_GET_SUPER_LONG",
       "OP_SUPER_INVOKE", "OP_SUPER_INVOKE_LONG" >>

\* the byte of an opcode
Op(name) ==
    LET all == OpCodes \o ClassOpCodes
    IN (CHOOSE i \in 1..Len(all) : all[i] = name) - 1

\* the opcode of a byte ("?" for a byte that is no opcode)
OpName(byte) ==
    LET all == OpCodes \o ClassOpCodes
    IN IF byte + 1 \in 1..Len(all) THEN all[byte + 1] ELSE "?"

(***************************************************************************)
(* chunk.c / value.c: writing into the chunk of function `pfun`.           *)
(***************************************************************************)
\* chunk.c GROW_VEC on the array `vec` ("code" or "lines") of the chunk of
\* `pfun`: the new capacity is stored, then the array is reallocated
GROW_VEC(s, pfun, vec) ==
    CASE s.exited \in BOOLEAN ->
    LET chunk == s.heap[pfun].chunk
        old_capacity == IF vec = "code" THEN chunk.code_capacity ELSE chunk.lines_capacity
        stored == IF vec = "code"
                  THEN [s EXCEPT !.heap[pfun].chunk.code_capacity = GROW_CAPACITY(@)]
                  ELSE [s EXCEPT !.heap[pfun].chunk.lines_capacity = GROW_CAPACITY(@)]
    IN GROW_ARRAY(stored, IF vec = "code" THEN "u8" ELSE "LineCodeIndexPair",
                  old_capacity, GROW_CAPACITY(old_capacity))

\* chunk.c chunk_write from its `step`-th statement on: the three conditional
\* GROW_VEC (steps 1 to 3), then the stores (step 4)
RECURSIVE chunk_write_from(_, _, _, _, _, _)
chunk_write_from(s, pfun, byte, line, current_lines_count, step) ==
    CASE s.exited \in BOOLEAN ->
    LET chunk == s.heap[pfun].chunk
        new_line == 0 = current_lines_count
                        \/ line # chunk.lines[current_lines_count].line
        grow == CASE step = 1 -> chunk.code_capacity <= Len(chunk.code)
                  [] step = 2 -> chunk.lines_capacity = 0
                  [] step = 3 -> new_line /\ chunk.lines_capacity <= current_lines_count
    IN IF step = 4
       THEN [s EXCEPT !.heap[pfun].chunk.lines =
                          IF new_line
                          THEN Append(@, [line |-> line, code_index |-> Len(chunk.code)])
                          ELSE @,
                      !.heap[pfun].chunk.code = Append(@, byte)]
       ELSE chunk_write_from(IF grow
                             THEN GROW_VEC(s, pfun, IF step = 1 THEN "code" ELSE "lines")
                             ELSE s,
                             pfun, byte, line, current_lines_count, step + 1)

\* chunk.c chunk_write
chunk_write(s, pfun, byte, line) ==
    chunk_write_from(s, pfun, byte, line, Len(s.heap[pfun].chunk.lines), 1)

\* consecutive chunk_write calls, one per byte
RECURSIVE chunk_write_bytes(_, _, _, _)
chunk_write_bytes(s, pfun, bytes, line) ==
    CASE s.exited \in BOOLEAN ->
    IF bytes = <<>> THEN s
    ELSE Run(Run(s, [name |-> "chunk_write", pfun |-> pfun, byte |-> Head(bytes), line |-> line]), [name |-> "chunk_write_bytes", pfun |-> pfun, bytes |-> Tail(bytes), line |-> line])

\* value.c value_array_write on the constants of `pfun`
value_array_write(s, pfun, value) ==
    CASE s.exited \in BOOLEAN ->
    LET arr == s.heap[pfun].chunk.constants
    IN [(IF arr.capacity <= Len(arr.values)
         THEN GROW_ARRAY([s EXCEPT !.heap[pfun].chunk.constants.capacity = GROW_CAPACITY(@)],
                         "Value", arr.capacity, GROW_CAPACITY(arr.capacity))
         ELSE s)
          EXCEPT !.heap[pfun].chunk.constants.values = Append(@, value)]

\* chunk.c chunk_add_constant; .r is the index of the constant.  While the
\* array grows the new constant is held by nothing but the caller (s.building)
chunk_add_constant(s, pfun, constant) ==
    CASE s.exited \in BOOLEAN ->
    LET held == IF IS_OBJ(constant) THEN [s EXCEPT !.building = @ \cup {constant.as}] ELSE s
        added(t) == [s |-> [t EXCEPT !.building = s.building],
                     r |-> Len(t.heap[pfun].chunk.constants.values) - 1]
    IN added(value_array_write(held, pfun, constant))

\* the three operand bytes of a long opcode, most significant first
LongOperand(param) == <<(param \div 65536) % 256, (param \div 256) % 256, param % 256>>

\* chunk.c chunk_write_constant, the writes once the index `a.r` is known
chunk_write_constant_index(a, pfun, line) ==
    Run(a.s, [name |-> "chunk_write_bytes", pfun |-> pfun, bytes |-> IF a.r < 256 THEN <<Op("OP_CONSTANT"), a.r>>
                      ELSE <<Op("OP_CONSTANT_LONG")>> \o LongOperand(a.r), line |-> line])

\* chunk.c chunk_write_constant
chunk_write_constant(s, pfun, value, line) ==
    chunk_write_constant_index(Run(s, [name |-> "chunk_add_constant", pfun |-> pfun, constant |-> value]), pfun, line)

\* chunk_get_line that gives the first byte of a run to the run before it
chunk_get_line_late(chunk, code_index) ==
    LET count == Len(chunk.lines)
        within == {i \in 1..(count - 1) : /\ chunk.lines[i].code_index <= code_index
                                          /\ code_index <= chunk.lines[i + 1].code_index}
    IN IF within # {} THEN chunk.lines[CHOOSE i \in within : \A j \in within : i <= j].line
       ELSE IF count > 0 /\ chunk.lines[count].code_index <= code_index
       THEN chunk.lines[count].line
       ELSE -1

\* chunk.c chunk_get_line
chunk_get_line(chunk, code_index) ==
    LET count == Len(chunk.lines)
        within == {i \in 1..(count - 1) : /\ chunk.lines[i].code_index <= code_index
                                          /\ code_index < chunk.lines[i + 1].code_index}
    IN IF within # {} THEN chunk.lines[CHOOSE i \in within : \A j \in within : i <= j].line
       ELSE IF count > 0 /\ chunk.lines[count].code_index <= code_index
       THEN chunk.lines[count].line
       ELSE -1

(***************************************************************************)
(* compiler.c.  A source text is given as its parse tree: a sequence of    *)
(* declarations (records tagged by .t); the handlers below emit for each   *)
(* node what the Pratt parser emits for its tokens, in the same order and  *)
(* with the same allocations.  Identifiers and string literals are byte    *)
(* sequences.  s.compilers is the chain current_compiler->penclosing...    *)
(* (current_compiler last), s.classes the chain of current_class.          *)
(***************************************************************************)
RECURSIVE expression(_, _)
RECURSIVE declaration_handler(_, _)

NoExpr == [t |-> "none"]

\* the largest jump operand (patch_jump, emit_loop)
U16_MAX == 65535

\* current_compiler
Cur(s) == s.compilers[Len(s.compilers)]

\* scanner.c scan_token: the next token of the text, TOK_EOF once it is used
\* up.  The text is given as the tokens the scanner makes of it; .start is the
\* lexeme (the message, for a TOK_ERROR).  A text given as its parse tree has
\* no tokens left to look at.
Token(kind, start) == [kind |-> kind, start |-> start]

scan_token(s) ==
    IF s.parser.pos <= Len(s.parser.tokens) THEN s.parser.tokens[s.parser.pos]
    ELSE Token("TOK_EOF", "")

\* error_at that reports even in panic mode
error_at_always(s, token, message) ==
    [s EXCEPT !.parser.panic_mode = TRUE,
              !.err = Append(@, <<message, token.kind>>),
              !.had_error = TRUE,
              !.parser.events = Append(@, "error")]

\* compiler.c error_at: the report goes to stderr unless the parser is in
\* panic mode; parser.events notes each call, and each synchronize
error_at(s, token, message) ==
    IF s.parser.panic_mode THEN [s EXCEPT !.parser.events = Append(@, "suppressed")]
    ELSE [s EXCEPT !.parser.panic_mode = TRUE,
                   !.err = Append(@, <<message, token.kind>>),
                   !.had_error = TRUE,
                   !.parser.events = Append(@, "error")]

\* compiler.c error_at_current
error_at_current(s, message) == error_at(s, s.parser.current, message)

\* compiler.c error
error(s, message) == error_at(s, s.parser.previous, message)

\* compiler.c advance, the loop: the scanner's error tokens are reported and
\* passed over
RECURSIVE advance_scan(_)
advance_scan(s) ==
    LET scanned(t) == IF t.parser.current.kind # "TOK_ERROR" THEN t
                      ELSE advance_scan(error_at_current(t, t.parser.current.start))
    IN scanned([s EXCEPT !.parser.current = scan_token(s), !.parser.pos = @ + 1])

\* compiler.c advance
advance(s) == advance_scan([s EXCEPT !.parser.previous = s.parser.current])

\* compiler.c check
check(s, kind) == kind = s.parser.current.kind

\* compiler.c match; .r is its result
match(s, kind) ==
    IF ~check(s, kind) THEN [s |-> s, r |-> FALSE] ELSE [s |-> advance(s), r |-> TRUE]

\* compiler.c consume
consume(s, kind, message) ==
    IF s.parser.current.kind = kind THEN advance(s) ELSE error_at_current(s, message)

\* the tokens synchronize stops in front of
StatementStart ==
    {"TOK_CLASS", "TOK_FUN", "TOK_VAR", "TOK_FOR", "TOK_IF", "TOK_WHILE", "TOK_PRINT",
     "TOK_RETURN"}

\* one turn of a loop of the parser, from `before` to `after`.  A turn that
\* read no token leaves the loop where it was, and the loop would never end:
\* parser.stalled notes such a turn, and the loops are left once it is set
Turn(before, after) ==
    IF after.parser.pos > before.parser.pos \/ after.exited THEN after
    ELSE [after EXCEPT !.parser.stalled = TRUE]

\* compiler.c synchronize, the loop
RECURSIVE synchronize_skip(_)
synchronize_skip(s) ==
    IF s.parser.stalled \/ s.parser.current.kind = "TOK_EOF" THEN s
    ELSE IF s.parser.previous.kind = "TOK_SEMICOLON" THEN s
    ELSE IF s.parser.current.kind \in StatementStart THEN s
    ELSE synchronize_skip(Turn(s, advance(s)))

\* synchronize that takes the text for right again
synchronize_clears_had_error(s) ==
    synchronize_skip([s EXCEPT !.parser.panic_mode = FALSE, !.had_error = FALSE,
                               !.parser.events = Append(@, "synchronize")])

\* compiler.c synchronize
synchronize(s) ==
    synchronize_skip([s EXCEPT !.parser.panic_mode = FALSE,
                               !.parser.events = Append(@, "synchronize")])

\* compiler.c declaration_handler, its last statement
declaration_handler_end(s) == IF s.parser.panic_mode THEN synchronize(s) ELSE s

\* compiler.c emit_byte (every token of a REPL line is on line 1)
emit_byte(s, byte) == Run(s, [name |-> "chunk_write", pfun |-> Cur(s).pfun, byte |-> byte, line |-> 1])

\* consecutive emit_byte calls, one per byte
emit_bytes(s, bytes) == Run(s, [name |-> "chunk_write_bytes", pfun |-> Cur(s).pfun, bytes |-> bytes, line |-> 1])

\* compiler.c emit_opcode_with_param
emit_opcode_with_param(s, opcode, param) ==
    CASE s.exited \in BOOLEAN ->
    emit_bytes(s, IF param < 256 THEN <<Op(opcode), param>>
                  ELSE <<Op(opcode) + 1>> \o LongOperand(param))

\* compiler.c emit_constant
emit_constant(s, value) == chunk_write_constant(s, Cur(s).pfun, value, 1)

\* compiler.c identifier_constant, the chunk_add_constant of the string `a.r`
identifier_constant_add(a) == Run(a.s, [name |-> "chunk_add_constant", pfun |-> Cur(a.s).pfun, constant |-> OBJ_VAL(a.r)])

\* compiler.c identifier_constant
identifier_constant(s, name) == identifier_constant_add(Run(s, [name |-> "string_copy", chars |-> name]))

\* emit_return that returns nil from every kind of function
emit_return_nil(s) ==
    CASE s.exited \in BOOLEAN ->
    emit_byte(emit_byte(s, Op("OP_NIL")), Op("OP_RETURN"))

\* compiler.c emit_return
emit_return(s) ==
    CASE s.exited \in BOOLEAN ->
    emit_byte(IF Cur(s).fun_kind = "initializer"
              THEN emit_opcode_with_param(s, "OP_GET_LOCAL", 0)
              ELSE emit_byte(s, Op("OP_NIL")),
              Op("OP_RETURN"))

\* compiler.c end_compiler; .r is the finished function, .upvalues the
\* upvalues array of the compiler that ended
end_compiler(s) ==
    CASE s.exited \in BOOLEAN ->
    LET ended(s1) == [s |-> [s1 EXCEPT !.compilers = SubSeq(@, 1, Len(@) - 1)],
                      r |-> Cur(s1).pfun,
                      upvalues |-> Cur(s1).upvalues]
    IN ended(emit_return(s))

\* compiler.c compiler_init, the string_copy of the function's name
compiler_init_name(s, fun_kind, name) ==
    CASE s.exited \in BOOLEAN ->
    LET named(b) == [b.s EXCEPT !.heap[Cur(b.s).pfun].name = b.r]
    IN IF fun_kind # "script" THEN named(Run(s, [name |-> "string_copy", chars |-> name])) ELSE s

\* compiler.c compiler_init; `name` is parser.previous, the function's name
compiler_init(s, fun_kind, name) ==
    CASE s.exited \in BOOLEAN ->
    LET current(a) == [a.s EXCEPT !.compilers = Append(@,
                          [pfun |-> a.r, fun_kind |-> fun_kind, locals |-> <<>>,
                           scope_depth |-> 0, upvalues |-> <<>>])]
        slot0 == [name |-> IF fun_kind # "function" THEN Bytes("this") ELSE Bytes(""),
                  depth |-> 0, is_captured |-> FALSE]
        local0(t) == [t EXCEPT !.compilers[Len(t.compilers)].locals = Append(@, slot0)]
    IN local0(compiler_init_name(current(function_create(s)), fun_kind, name))

\* compiler.c begin_scope
begin_scope(s) == [s EXCEPT !.compilers[Len(s.compilers)].scope_depth = @ + 1]

\* compiler.c end_scope, the loop that pops the locals of the scope left
RECURSIVE end_scope_pop(_)
end_scope_pop(s) ==
    CASE s.exited \in BOOLEAN ->
    LET c == Cur(s)
        n == Len(c.locals)
        drop(t) == [t EXCEPT !.compilers[Len(t.compilers)].locals = SubSeq(@, 1, n - 1)]
    IN IF n > 0 /\ c.locals[n].depth > c.scope_depth
       THEN end_scope_pop(drop(emit_byte(s, IF c.locals[n].is_captured
                                            THEN Op("OP_CLOSE_UPVALUE") ELSE Op("OP_POP"))))
       ELSE s

\* compiler.c end_scope
end_scope(s) ==
    end_scope_pop([s EXCEPT !.compilers[Len(s.compilers)].scope_depth = @ - 1])

\* compiler.c add_local
add_local(s, name) ==
    CASE s.exited \in BOOLEAN ->
    [s EXCEPT !.compilers[Len(s.compilers)].locals =
                  Append(@, [name |-> name, depth |-> -1, is_captured |-> FALSE])]

\* compiler.c mark_initialized
mark_initialized(s) ==
    CASE s.exited \in BOOLEAN ->
    IF 0 = Cur(s).scope_depth THEN s
    ELSE [s EXCEPT !.compilers[Len(s.compilers)].locals[Len(Cur(s).locals)].depth =
                       Cur(s).scope_depth]

\* compiler.c declare_variable
declare_variable(s, name) ==
    CASE s.exited \in BOOLEAN ->
    LET c == Cur(s)
        \* the locals at which the loop breaks: those of an enclosing scope
        outer == {i \in 1..Len(c.locals) : /\ -1 # c.locals[i].depth
                                           /\ c.locals[i].depth < c.scope_depth}
        first == IF outer = {} THEN 1 ELSE (CHOOSE i \in outer : \A j \in outer : j <= i) + 1
        clash == \E i \in first..Len(c.locals) : c.locals[i].name = name
    IN IF c.scope_depth = 0 THEN s
       ELSE add_local(IF clash
                      THEN error(s, "Already variable with this name in this scope.")
                      ELSE s, name)

\* compiler.c define_variable
define_variable(s, global) ==
    CASE s.exited \in BOOLEAN ->
    IF Cur(s).scope_depth > 0 THEN mark_initialized(s)
    ELSE emit_opcode_with_param(s, "OP_DEFINE_GLOBAL", global)

\* compiler.c parse_variable; .r is the name constant (-1 for a local)
parse_variable(s, name) ==
    CASE s.exited \in BOOLEAN ->
    LET s1 == declare_variable(s, name)
    IN IF Cur(s1).scope_depth > 0 THEN [s |-> s1, r |-> -1]
       ELSE identifier_constant(s1, name)

\* compiler.c resolve_local in compiler number ci of the chain; .r is the
\* slot (0-based) or -1
resolve_local(s, ci, name) ==
    CASE s.exited \in BOOLEAN ->
    LET locals == s.compilers[ci].locals
        \* the loop runs from the last local down: the last match is found
        found == {k \in 1..Len(locals) : locals[k].name = name}
        i == IF found = {} THEN 0 ELSE CHOOSE k \in found : \A j \in found : j <= k
    IN IF i = 0 THEN [s |-> s, r |-> -1]
       ELSE [s |-> IF -1 = locals[i].depth
                   THEN error(s, "Can't read local variable in its own initializer.")
                   ELSE s,
             r |-> i - 1]

\* compiler.c add_upvalue for compiler number ci
add_upvalue(s, ci, index, is_local) ==
    CASE s.exited \in BOOLEAN ->
    LET c == s.compilers[ci]
        upvalue_count == s.heap[c.pfun].upvalue_count
        same == {i \in 1..upvalue_count :
                    i <= Len(c.upvalues) /\ c.upvalues[i].index = index
                                         /\ c.upvalues[i].is_local = is_local}
    IN IF same # {} THEN [s |-> s, r |-> (CHOOSE i \in same : \A j \in same : i <= j) - 1]
       ELSE [s |-> [s EXCEPT !.compilers[ci].upvalues =
                                 Append(@, [index |-> index, is_local |-> is_local]),
                             !.heap[c.pfun].upvalue_count = @ + 1],
             r |-> upvalue_count]

\* compiler.c resolve_upvalue for compiler number ci; the local it captures is
\* flagged in current_compiler->penclosing, whichever compiler was asked
resolve_upvalue(s, ci, name) ==
    CASE s.exited \in BOOLEAN ->
    LET RECURSIVE go(_, _)
        go(t, k) ==
            IF k = 1 THEN [s |-> t, r |-> -1]
            ELSE LET local == resolve_local(t, k - 1, name)
                     outer == Len(t.compilers) - 1
                     t1 == IF local.r + 1 <= Len(local.s.compilers[outer].locals)
                           THEN [local.s EXCEPT
                                    !.compilers[outer].locals[local.r + 1].is_captured = TRUE]
                           ELSE local.s
                 IN IF -1 # local.r THEN add_upvalue(t1, k, local.r, TRUE)
                    ELSE LET upvalue == go(local.s, k - 1)
                         IN IF -1 # upvalue.r
                            THEN add_upvalue(upvalue.s, k, upvalue.r, FALSE)
                            ELSE [s |-> upvalue.s, r |-> -1]
    IN go(s, ci)

\* compiler.c named_variable, the resolution of `name`: .k says where it was
\* found, .r is its slot, upvalue index or name constant
named_variable_resolve(s, name) ==
    CASE s.exited \in BOOLEAN ->
    LET local == resolve_local(s, Len(s.compilers), name)
        upvalue == resolve_upvalue(local.s, Len(s.compilers), name)
        global(a) == [s |-> a.s, r |-> a.r, k |-> "GLOBAL"]
    IN IF -1 # local.r THEN [s |-> local.s, r |-> local.r, k |-> "LOCAL"]
       ELSE IF -1 # upvalue.r THEN [s |-> upvalue.s, r |-> upvalue.r, k |-> "UPVALUE"]
       ELSE global(identifier_constant(upvalue.s, name))

\* compiler.c named_variable, from `if (can_assign && match(TOK_EQUAL))` on
named_variable_emit(found, rhs) ==
    emit_opcode_with_param(IF rhs # NoExpr THEN Run(found.s, [name |-> "expression", e |-> rhs]) ELSE found.s,
                           (IF rhs # NoExpr THEN "OP_SET_" ELSE "OP_GET_") \o found.k,
                           found.r)

\* compiler.c named_variable; `rhs` is the expression after '=' (NoExpr when
\* the name is read)
named_variable(s, name, rhs) == named_variable_emit(named_variable_resolve(s, name), rhs)

\* compiler.c argument_list: the arguments one after the other (the first half
\* of them, then the rest)
RECURSIVE argument_list(_, _)
argument_list(s, args) ==
    CASE s.exited \in BOOLEAN ->
    IF args = <<>> THEN s
    ELSE IF Len(args) = 1 THEN Run(s, [name |-> "expression", e |-> args[1]])
    ELSE argument_list(argument_list(s, SubSeq(args, 1, Len(args) \div 2)),
                       SubSeq(args, Len(args) \div 2 + 1, Len(args)))

\* compiler.c call_handler
call_handler(s, args) ==
    emit_opcode_with_param(argument_list(s, args), "OP_CALL", Len(args))

\* compiler.c dot_handler; e is the parse of  obj.name,  obj.name = value  or
\* obj.name(args),  its object already compiled
dot_handler(s, e) ==
    CASE s.exited \in BOOLEAN ->
    LET emit(name) ==
            CASE e.t = "set" ->
                    emit_opcode_with_param(Run(name.s, [name |-> "expression", e |-> e.value]),
                                           "OP_SET_PROPERTY", name.r)
              [] e.t = "invoke" ->
                    emit_byte(emit_opcode_with_param(argument_list(name.s, e.args),
                                                     "OP_INVOKE", name.r),
                              Len(e.args))
              [] OTHER -> emit_opcode_with_param(name.s, "OP_GET_PROPERTY", name.r)
    IN emit(identifier_constant(s, e.name))

\* compiler.c this_handler
this_handler(s) ==
    CASE s.exited \in BOOLEAN ->
    IF s.classes = <<>> THEN error(s, "Can't use 'this' outside of a class.")
    ELSE Run(s, [name |-> "named_variable", ident |-> Bytes("this"), rhs |-> NoExpr])

\* compiler.c super_handler; e is the parse of  super.name  or  super.name(args)
super_handler(s, e) ==
    CASE s.exited \in BOOLEAN ->
    LET checked == IF s.classes = <<>>
                   THEN error(s, "Can't use 'super' outside of a class.")
                   ELSE IF ~s.classes[Len(s.classes)].has_super_class
                   THEN error(s, "Can't user 'super' in a class with no superclass")
                   ELSE s
        this_(name) == Run(name.s, [name |-> "named_variable", ident |-> Bytes("this"),
                                    rhs |-> NoExpr])
        super_(t) == Run(t, [name |-> "named_variable", ident |-> Bytes("super"),
                             rhs |-> NoExpr])
        invoke(name, t) ==
            CASE t.exited \in BOOLEAN ->
            emit_byte(emit_opcode_with_param(t, "OP_SUPER_INVOKE", name.r), Len(e.args))
        emit(name) ==
            CASE name.s.exited \in BOOLEAN ->
            IF e.t = "superinvoke"
            THEN invoke(name, super_(argument_list(this_(name), e.args)))
            ELSE emit_opcode_with_param(super_(this_(name)), "OP_GET_SUPER", name.r)
    IN emit(identifier_constant(checked, e.name))

\* compiler.c block: the declarations one after the other (the first half of
\* them, then the rest)
RECURSIVE block(_, _)
block(s, body) ==
    CASE s.exited \in BOOLEAN ->
    IF body = <<>> THEN s
    ELSE IF Len(body) = 1 THEN Run(s, [name |-> "declaration_handler", d |-> body[1]])
    ELSE block(block(s, SubSeq(body, 1, Len(body) \div 2)),
               SubSeq(body, Len(body) \div 2 + 1, Len(body)))

\* compiler.c define_variable of what parse_variable returned
define_parsed(v) == define_variable(v.s, v.r)

\* compiler.c function, the loop over the parameters (the first half of them,
\* then the rest)
RECURSIVE function_params(_, _)
function_params(s, params) ==
    CASE s.exited \in BOOLEAN ->
    IF params = <<>> THEN s
    ELSE IF Len(params) = 1
    THEN define_parsed(parse_variable([s EXCEPT !.heap[Cur(s).pfun].arity = @ + 1],
                                      params[1]))
    ELSE function_params(function_params(s, SubSeq(params, 1, Len(params) \div 2)),
                         SubSeq(params, Len(params) \div 2 + 1, Len(params)))

\* compiler.c function, the operand pairs after OP_CLOSURE; e is what
\* end_compiler returned
RECURSIVE function_captures(_, _, _)
function_captures(s, e, i) ==
    CASE s.exited \in BOOLEAN ->
    IF i > s.heap[e.r].upvalue_count \/ i > Len(e.upvalues) THEN s
    ELSE function_captures(
            emit_byte(emit_byte(s, IF e.upvalues[i].is_local THEN 1 ELSE 0),
                      e.upvalues[i].index),
            e, i + 1)

\* emit_opcode_with_param of the constant chunk_add_constant returned
emit_opcode_with_constant(c, opcode) == emit_opcode_with_param(c.s, opcode, c.r)

\* compiler.c function, assert(fun_index < 255): there is no OP_CLOSURE_LONG,
\* and the process aborts when the function's constant index would need it
function_index(fun_index) ==
    IF fun_index.r < 255 THEN fun_index
    ELSE [s |-> [fun_index.s EXCEPT !.exited = TRUE], r |-> fun_index.r]

\* compiler.c function, from end_compiler's return on
function_closure(e) ==
    function_captures(
        emit_opcode_with_constant(
            function_index(Run(e.s, [name |-> "chunk_add_constant", pfun |-> Cur(e.s).pfun, constant |-> OBJ_VAL(e.r)])),
            "OP_CLOSURE"),
        e, 1)

\* compiler.c function
function(s, fun_kind, name, params, body) ==
    CASE s.exited \in BOOLEAN ->
    function_closure(end_compiler(
        block(function_params(begin_scope(compiler_init(s, fun_kind, name)), params),
              body)))

\* compiler.c method, after the name constant
method_body(constant, m) ==
    emit_opcode_with_param(
        function(constant.s, IF m.name = Bytes("init") THEN "initializer" ELSE "method",
                 m.name, m.params, m.body),
        "OP_METHOD", constant.r)

\* compiler.c method
method(s, m) == method_body(identifier_constant(s, m.name), m)

\* compiler.c class_decl_handler, up to `current_class = &class_compiler`
class_decl_begin(name_constant, d) ==
    LET enter(t) == [t EXCEPT !.classes = Append(@, [name |-> d.name,
                                                      has_super_class |-> d.super # <<>>])]
    IN enter(define_variable(
                emit_opcode_with_param(declare_variable(name_constant.s, d.name),
                                       "OP_CLASS", name_constant.r),
                name_constant.r))

\* compiler.c class_decl_handler, `if (match(TOK_LESS))`
class_decl_super(s, d) ==
    CASE s.exited \in BOOLEAN ->
    LET itself(t) == IF d.name = d.super
                     THEN error(t, "A class can't inherit from itself.") ELSE t
        super(t) == add_local(begin_scope(t), Bytes("super"))
    IN IF d.super # <<>>
       THEN emit_byte(
                Run(define_variable(super(itself(named_variable(s, d.super, NoExpr))), 0), [name |-> "named_variable", ident |-> d.name, rhs |-> NoExpr]),
                Op("OP_INHERIT"))
       ELSE s

\* compiler.c class_decl_handler, the loop over the methods
RECURSIVE class_decl_methods(_, _)
class_decl_methods(s, methods) ==
    CASE s.exited \in BOOLEAN ->
    IF methods = <<>> THEN s
    ELSE class_decl_methods(method(s, Head(methods)), Tail(methods))

\* compiler.c class_decl_handler, `if (class_compiler.has_super_class)`
class_decl_end(s, d) ==
    CASE s.exited \in BOOLEAN ->
    [(IF d.super # <<>> THEN end_scope(s) ELSE s)
        EXCEPT !.classes = SubSeq(@, 1, Len(@) - 1)]

\* compiler.c class_decl_handler
class_decl_handler(s, d) ==
    CASE s.exited \in BOOLEAN ->
    class_decl_end(
        emit_byte(
            class_decl_methods(
                Run(class_decl_super(class_decl_begin(identifier_constant(s, d.name), d), d), [name |-> "named_variable", ident |-> d.name, rhs |-> NoExpr]),
                d.methods),
            Op("OP_POP")),
        d)

\* compiler.c fun_decl_handler, after parse_variable
fun_decl_function(global, d) ==
    define_variable(function(mark_initialized(global.s), "function",
                             d.name, d.params, d.body),
                    global.r)

\* compiler.c fun_decl_handler and function, up to the '(' of the parameters
fun_decl_begin(s, name) ==
    CASE s.exited \in BOOLEAN ->
    begin_scope(compiler_init(mark_initialized(parse_variable(s, name).s), "function", name))

\* compiler.c fun_decl_handler
fun_decl_handler(s, d) == fun_decl_function(parse_variable(s, d.name), d)

\* compiler.c var_decl_handler, after parse_variable
var_decl_init(global, d) ==
    define_variable(IF d.init # NoExpr THEN Run(global.s, [name |-> "expression", e |-> d.init])
                    ELSE emit_byte(global.s, Op("OP_NIL")),
                    global.r)

\* compiler.c var_decl_handler
var_decl_handler(s, d) == var_decl_init(parse_variable(s, d.name), d)

\* compiler.c return_statement_handler
return_statement_handler(s, d) ==
    CASE s.exited \in BOOLEAN ->
    LET s1 == IF Cur(s).fun_kind = "script"
              THEN error(s, "Cannot return from top-level code") ELSE s
        s2 == IF Cur(s1).fun_kind = "initializer"
              THEN error(s1, "Can't return a value from an initializer.") ELSE s1
    IN IF d.e = NoExpr THEN emit_return(s1)
       ELSE emit_byte(Run(s2, [name |-> "expression", e |-> d.e]), Op("OP_RETURN"))

\* emit_constant of the object a constructor returned
emit_object_constant(a) == emit_constant(a.s, OBJ_VAL(a.r))

\* compiler.c emit_jump; .r is the offset of the two operand bytes
emit_jump(s, instruction) ==
    CASE s.exited \in BOOLEAN ->
    LET emitted(t) == [s |-> t, r |-> Len(t.heap[Cur(t).pfun].chunk.code) - 2]
    IN emitted(emit_bytes(s, <<Op(instruction), 255, 255>>))

\* history only: the jump whose operand is at `from` in the chunk of the
\* current function was meant for the code index `to`
NotedJump(s, from, to) ==
    [s EXCEPT !.audit.jumps =
        {j \in @ : j.pfun # Cur(s).pfun \/ j.from # from}
            \cup {[pfun |-> Cur(s).pfun, from |-> from, to |-> to]}]

\* compiler.c patch_jump
patch_jump(s, offset) ==
    CASE s.exited \in BOOLEAN ->
    LET pfun == Cur(s).pfun
        jump == Len(s.heap[pfun].chunk.code) - offset - 2
        checked == IF jump > U16_MAX THEN error(s, "Too much code to jump over.") ELSE s
    IN [NotedJump(checked, offset, Len(s.heap[pfun].chunk.code))
          EXCEPT !.heap[pfun].chunk.code[offset + 1] = (jump \div 256) % 256,
                 !.heap[pfun].chunk.code[offset + 2] = jump % 256]

\* and_handler that patches the jump before the right operand is compiled:
\* the jump lands on the right operand
and_handler_patches_early(s, e) ==
    CASE s.exited \in BOOLEAN ->
    LET rhs(end_jump) ==
            Run(patch_jump(emit_byte(end_jump.s, Op("OP_POP")), end_jump.r),
                [name |-> "expression", e |-> e.rhs])
    IN rhs(emit_jump(s, "OP_JUMP_IF_FALSE"))

\* compiler.c and_handler; e is the parse of  lhs and rhs,  its lhs already
\* compiled
and_handler(s, e) ==
    CASE s.exited \in BOOLEAN ->
    LET rhs(end_jump) ==
            patch_jump(Run(emit_byte(end_jump.s, Op("OP_POP")),
                           [name |-> "expression", e |-> e.rhs]),
                       end_jump.r)
    IN rhs(emit_jump(s, "OP_JUMP_IF_FALSE"))

\* compiler.c or_handler; e is the parse of  lhs or rhs,  its lhs already
\* compiled
or_handler(s, e) ==
    CASE s.exited \in BOOLEAN ->
    LET rhs(else_jump, end_jump) ==
            patch_jump(Run(emit_byte(patch_jump(end_jump.s, else_jump.r), Op("OP_POP")),
                           [name |-> "expression", e |-> e.rhs]),
                       end_jump.r)
        jumps(else_jump) == rhs(else_jump, emit_jump(else_jump.s, "OP_JUMP"))
    IN jumps(emit_jump(s, "OP_JUMP_IF_FALSE"))

\* compiler.c expression: parse_precedence dispatching on the prefix and infix
\* rules (number_handler, string_handler, literal_hanler, variable_handler,
\* binary_handler, call_handler, dot_handler, this_handler, and_handler,
\* or_handler)
expression(s, e) ==
    CASE s.exited \in BOOLEAN ->
    CASE e.t = "num" -> emit_constant(s, NUMBER_VAL(e.n))
      [] e.t = "str" -> emit_object_constant(Run(s, [name |-> "string_copy", chars |-> e.chars]))
      [] e.t = "nil" -> emit_byte(s, Op("OP_NIL"))
      [] e.t \in {"var", "assign"} ->
            Run(s, [name |-> "named_variable", ident |-> e.name, rhs |-> IF e.t = "assign" THEN e.value ELSE NoExpr])
      [] e.t = "add" -> emit_byte(Run(expression(s, e.lhs), [name |-> "expression", e |-> e.rhs]), Op("OP_ADD"))
      [] e.t = "call" -> call_handler(Run(s, [name |-> "expression", e |-> e.callee]), e.args)
      [] e.t \in {"get", "set", "invoke"} -> dot_handler(Run(s, [name |-> "expression", e |-> e.obj]), e)
      [] e.t = "this" -> this_handler(s)
      [] e.t \in {"super", "superinvoke"} -> super_handler(s, e)
      [] e.t = "true" -> emit_byte(s, Op("OP_TRUE"))
      [] e.t = "false" -> emit_byte(s, Op("OP_FALSE"))
      [] e.t = "and" -> and_handler(Run(s, [name |-> "expression", e |-> e.lhs]), e)
      [] e.t = "or" -> or_handler(Run(s, [name |-> "expression", e |-> e.lhs]), e)

\* emit_loop that leaves the two operand bytes out of the distance: the loop
\* lands two bytes after loop_start
emit_loop_without_operand(s, loop_start) ==
    CASE s.exited \in BOOLEAN ->
    LET operand(t) ==
            LET offset == Len(t.heap[Cur(t).pfun].chunk.code) - loop_start
                noted == NotedJump(t, Len(t.heap[Cur(t).pfun].chunk.code), loop_start)
            IN emit_bytes(IF offset > U16_MAX THEN error(noted, "Loop body is too large")
                          ELSE noted,
                          <<(offset \div 256) % 256, offset % 256>>)
    IN operand(emit_byte(s, Op("OP_LOOP")))

\* compiler.c emit_loop
emit_loop(s, loop_start) ==
    CASE s.exited \in BOOLEAN ->
    LET operand(t) ==
            LET offset == Len(t.heap[Cur(t).pfun].chunk.code) - loop_start + 2
                noted == NotedJump(t, Len(t.heap[Cur(t).pfun].chunk.code), loop_start)
            IN emit_bytes(IF offset > U16_MAX THEN error(noted, "Loop body is too large")
                          ELSE noted,
                          <<(offset \div 256) % 256, offset % 256>>)
    IN operand(emit_byte(s, Op("OP_LOOP")))

\* compiler.c if_statement_handler
if_statement_handler(s, d) ==
    CASE s.exited \in BOOLEAN ->
    LET else_(else_jump) ==
            patch_jump(IF d.orelse = NoExpr THEN else_jump.s
                       ELSE Run(else_jump.s, [name |-> "statement", d |-> d.orelse]),
                       else_jump.r)
        patched(then_jump, else_jump) ==
            else_([else_jump EXCEPT !.s = emit_byte(patch_jump(@, then_jump.r), Op("OP_POP"))])
        then(then_jump) ==
            patched(then_jump,
                    emit_jump(Run(emit_byte(then_jump.s, Op("OP_POP")),
                                  [name |-> "statement", d |-> d.body]),
                              "OP_JUMP"))
    IN then(emit_jump(Run(s, [name |-> "expression", e |-> d.cond]), "OP_JUMP_IF_FALSE"))

\* compiler.c while_statement_handler
while_statement_handler(s, d) ==
    CASE s.exited \in BOOLEAN ->
    LET loop_start == Len(s.heap[Cur(s).pfun].chunk.code)
        body(exit_jump) ==
            emit_byte(patch_jump(emit_loop(Run(emit_byte(exit_jump.s, Op("OP_POP")),
                                               [name |-> "statement", d |-> d.body]),
                                           loop_start),
                                 exit_jump.r),
                      Op("OP_POP"))
    IN body(emit_jump(Run(s, [name |-> "expression", e |-> d.cond]), "OP_JUMP_IF_FALSE"))

\* compiler.c statement_handler (with print_st_handler and expr_stmt_hanler),
\* on the parsed statement
statement(s, d) ==
    CASE s.exited \in BOOLEAN ->
    CASE d.t = "print" -> emit_byte(Run(s, [name |-> "expression", e |-> d.e]), Op("OP_PRINT"))
      [] d.t = "return" -> return_statement_handler(s, d)
      [] d.t = "block" -> end_scope(block(begin_scope(s), d.body))
      [] d.t = "if" -> if_statement_handler(s, d)
      [] d.t = "while" -> while_statement_handler(s, d)
      [] d.t = "expr" -> emit_byte(Run(s, [name |-> "expression", e |-> d.e]), Op("OP_POP"))

\* compiler.c declaration_handler
declaration_handler(s, d) ==
    CASE s.exited \in BOOLEAN ->
    declaration_handler_end(
        CASE d.t = "class" -> class_decl_handler(s, d)
          [] d.t = "fun" -> fun_decl_handler(s, d)
          [] d.t = "var" -> var_decl_handler(s, d)
          [] OTHER -> statement(s, d))

\* compiler.c compile; .r is the script function, NULL after a compile error
compile(s, source) ==
    CASE s.exited \in BOOLEAN ->
    LET parser(t) == [t EXCEPT !.had_error = FALSE, !.parser.panic_mode = FALSE,
                               !.parser.events = <<>>]
        compiled(e) == [s |-> e.s, r |-> IF e.s.had_error THEN NULL ELSE e.r]
    IN compiled(end_compiler(block(parser(compiler_init(s, "script", <<>>)), source)))
(***************************************************************************)
(* vm.c: the helpers of the interpreter loop.  Those that can fail return  *)
(* [s |-> state, ok |-> BOOLEAN].  A frame is [pclosure, ip, slots]: ip is *)
(* the offset of the next byte in the function's code, slots the number of *)
(* stack slots below the frame's slot 0.                                   *)
(***************************************************************************)
\* vm.c runtime_error, its loop over the frames: the `[line %d] in ...` lines
\* written to stderr, for frames[frame_count - 1] down to frames[1]
stack_trace(s) ==
    [k \in 1..(Len(s.frames) - 1) |->
        LET pframe == s.frames[Len(s.frames) - k + 1]
            pfun == s.heap[s.heap[pframe.pclosure].pfun]
        IN [line |-> chunk_get_line(pfun.chunk, pframe.ip - 1),
            name |-> IF NULL = pfun.name THEN <<"script">>
                     ELSE <<"%s()", s.heap[pfun.name].chars>>]]

\* vm.c runtime_error: the message and the stack trace go to stderr, then the
\* VM is reset
runtime_error(s, format, arg) ==
    CASE s.exited \in BOOLEAN ->
    vm_stack_reset([s EXCEPT !.err = Append(@, <<format, arg>>),
                             !.trace = Append(@, stack_trace(s))])

\* vm.c is_falsey
is_falsey(value) ==
    \/ IS_NIL(value)
    \/ (value.kind = "bool" /\ value.as = 0)
    \/ (value.kind = "number" /\ value.as = 0)

\* value.c value_print with object.c object_print / function_print: the text
\* written to stdout (classes, instances and bound methods have no case)
value_print(s, value) ==
    CASE s.exited \in BOOLEAN ->
    LET function_print(pfun) ==
            IF NULL = s.heap[pfun].name THEN <<"<script>">>
            ELSE <<"<fun %s>", s.heap[s.heap[pfun].name].chars>>
    IN CASE value.kind = "bool" -> IF value.as = 1 THEN <<"true">> ELSE <<"false">>
         [] value.kind = "nil" -> <<"nil">>
         [] value.kind = "number" -> <<"%g", value.as>>
         [] value.kind = "obj" ->
                LET o == s.heap[value.as]
                IN CASE o.kind = "string" -> <<"%s", o.chars>>
                     [] o.kind = "native" -> <<"<native fun>">>
                     [] o.kind = "function" -> function_print(value.as)
                     [] o.kind = "closure" -> function_print(o.pfun)
                     [] o.kind = "upvalue" -> <<"upvalue">>
                     [] OTHER -> <<"">>

\* vm.c concatenate
concatenate(s) ==
    CASE s.exited \in BOOLEAN ->
    LET rhs == s.heap[vm_stack_peek(s, 0).as]
        lhs == s.heap[vm_stack_peek(s, 1).as]
        chars == lhs.chars \o rhs.chars
        result(a) == vm_stack_push(vm_stack_pop(vm_stack_pop(a.s)), OBJ_VAL(a.r))
    IN result(string_create(ALLOCATE(s, "char", Len(chars) + 1), chars,
                            sizeof("char") * (Len(chars) + 1)))

\* vm_call with the depth test one frame late (FRAMES_MAX < frame_count)
vm_call_tests_late(s, pclosure, arg_count) ==
    CASE s.exited \in BOOLEAN ->
    LET pfun == s.heap[pclosure].pfun
    IN IF arg_count # s.heap[pfun].arity
       THEN [s |-> runtime_error(s, "Expected %d argumnets, but got %d.",
                                 <<s.heap[pfun].arity, arg_count>>), ok |-> FALSE]
       ELSE IF FRAMES_MAX < Len(s.frames)
       THEN [s |-> runtime_error(s, "Stack overflow.", <<>>), ok |-> FALSE]
       ELSE [s |-> [s EXCEPT !.frames = Append(@, [pclosure |-> pclosure, ip |-> 0,
                                                   slots |-> Len(s.stack) - arg_count - 1])],
             ok |-> TRUE]

\* vm_call without the test of arg_count against the function's arity
vm_call_ignores_arity(s, pclosure, arg_count) ==
    CASE s.exited \in BOOLEAN ->
    IF FRAMES_MAX = Len(s.frames)
    THEN [s |-> runtime_error(s, "Stack overflow.", <<>>), ok |-> FALSE]
    ELSE [s |-> [s EXCEPT !.frames = Append(@, [pclosure |-> pclosure, ip |-> 0,
                                                slots |-> Len(s.stack) - arg_count - 1])],
          ok |-> TRUE]

\* vm.c vm_call
vm_call(s, pclosure, arg_count) ==
    CASE s.exited \in BOOLEAN ->
    LET pfun == s.heap[pclosure].pfun
    IN IF arg_count # s.heap[pfun].arity
       THEN [s |-> runtime_error(s, "Expected %d argumnets, but got %d.",
                                 <<s.heap[pfun].arity, arg_count>>), ok |-> FALSE]
       ELSE IF FRAMES_MAX = Len(s.frames)
       THEN [s |-> runtime_error(s, "Stack overflow.", <<>>), ok |-> FALSE]
       ELSE [s |-> [s EXCEPT !.frames = Append(@, [pclosure |-> pclosure, ip |-> 0,
                                                   slots |-> Len(s.stack) - arg_count - 1])],
             ok |-> TRUE]

\* native_time.c clock_native / native_io.c readln_native as seen by the VM:
\* the clock reads 0 and stdin is at end of file
native_call(s, pfun) ==
    CASE s.exited \in BOOLEAN ->
    LET line(a) == [s |-> a.s, r |-> OBJ_VAL(a.r)]
    IN IF pfun = "clock_native" THEN [s |-> s, r |-> NUMBER_VAL(0)]
       ELSE line(string_create(GROW_ARRAY(s, "char", 0, MEM_MIN_CAPACITY), <<>>,
                               sizeof("char") * MEM_MIN_CAPACITY))

\* vm.c vm_call_value
vm_call_value(s, callee, arg_count) ==
    CASE s.exited \in BOOLEAN ->
    LET kind == IF IS_OBJ(callee) THEN s.heap[callee.as].kind ELSE "none"
        base == Len(s.stack) - arg_count
        construct(a) ==
            LET s1 == [a.s EXCEPT !.stack[base] = OBJ_VAL(a.r)]
                initializer == table_get(s1.heap, s1.heap[callee.as].methods,
                                         s1.init_string)
            IN IF initializer.r THEN vm_call(s1, initializer.value.as, arg_count)
               ELSE IF 0 # arg_count
               THEN [s |-> runtime_error(s1, "Expected 0 arguments, but got %d.",
                                         <<arg_count>>), ok |-> FALSE]
               ELSE [s |-> s1, ok |-> TRUE]
        return(a) == [s |-> vm_stack_push(StackTop(a.s, base - 1),
                                          a.r),
                      ok |-> TRUE]
    IN CASE kind = "bound_method" ->
                vm_call([s EXCEPT !.stack[base] = s.heap[callee.as].receiver],
                        s.heap[callee.as].method, arg_count)
         [] kind = "class" -> construct(instance_create(s, callee.as))
         [] kind = "closure" -> vm_call(s, callee.as, arg_count)
         [] kind = "native" ->
                IF s.heap[callee.as].arity # arg_count
                THEN [s |-> runtime_error(s, "Expected %d argumnets, but got %d.",
                                          <<s.heap[callee.as].arity, arg_count>>),
                      ok |-> FALSE]
                ELSE return(native_call(s, s.heap[callee.as].pfun))
         [] OTHER -> [s |-> runtime_error(s, "Can only call functions and classes.", <<>>),
                      ok |-> FALSE]

\* capture_upvalue without the walk: a new upvalue for every capture, put at
\* the head of the list
capture_upvalue_at_head(s, plocal) ==
    CASE s.exited \in BOOLEAN ->
    LET link(a) == [s |-> [a.s EXCEPT !.heap[a.r].next = s.open_upvalues,
                                      !.open_upvalues = a.r],
                    r |-> a.r]
    IN link(upvalue_create(s, plocal))

\* vm.c capture_upvalue; .r is the upvalue for stack slot plocal
capture_upvalue(s, plocal) ==
    CASE s.exited \in BOOLEAN ->
    LET RECURSIVE walk(_, _)
        walk(prev, up) ==
            IF NULL # up /\ s.heap[up].location > plocal THEN walk(up, s.heap[up].next)
            ELSE <<prev, up>>
        w == walk(NULL, s.open_upvalues)
        p_prev_upvalue == w[1]
        p_upvalue == w[2]
        link(a) ==
            LET s1 == [a.s EXCEPT !.heap[a.r].next = p_upvalue]
            IN [s |-> IF NULL = p_prev_upvalue THEN [s1 EXCEPT !.open_upvalues = a.r]
                      ELSE [s1 EXCEPT !.heap[p_prev_upvalue].next = a.r],
                r |-> a.r]
    IN IF NULL # p_upvalue /\ s.heap[p_upvalue].location = plocal
       THEN [s |-> s, r |-> p_upvalue]
       ELSE link(upvalue_create(s, plocal))

\* close_upvalues without `upvalue->closed = *upvalue->location`
close_upvalues_forgets_value(s, last) ==
    CASE s.exited \in BOOLEAN ->
    LET RECURSIVE go(_)
        go(t) ==
            LET up == t.open_upvalues
            IN IF NULL # up /\ t.heap[up].location >= last
               THEN go([t EXCEPT !.heap[up].location = 0,
                                 !.open_upvalues = t.heap[up].next])
               ELSE t
    IN go(s)

\* close_upvalues with `location > last` for `location >= last`
close_upvalues_above(s, last) ==
    CASE s.exited \in BOOLEAN ->
    LET RECURSIVE go(_)
        go(t) ==
            LET up == t.open_upvalues
            IN IF NULL # up /\ t.heap[up].location > last
               THEN go([t EXCEPT !.heap[up].closed = StackAt(t, t.heap[up].location),
                                 !.heap[up].location = 0,
                                 !.open_upvalues = t.heap[up].next])
               ELSE t
    IN go(s)

\* vm.c close_upvalues; a closed upvalue has location 0 (it points at its own
\* `closed` field)
close_upvalues(s, last) ==
    CASE s.exited \in BOOLEAN ->
    LET RECURSIVE go(_)
        go(t) ==
            LET up == t.open_upvalues
            IN IF NULL # up /\ t.heap[up].location >= last
               THEN go([t EXCEPT !.heap[up].closed = StackAt(t, t.heap[up].location),
                                 !.heap[up].location = 0,
                                 !.open_upvalues = t.heap[up].next])
               ELSE t
    IN go(s)

\* vm.c vm_process_define_global
vm_process_define_global(s, name) ==
    CASE s.exited \in BOOLEAN ->
    vm_stack_pop(Run(s, [name |-> "table_set", loc |-> GlobalsLoc, key |-> name, value |-> vm_stack_peek(s, 0)]).s)

\* vm.c vm_process_get_global
vm_process_get_global(s, name) ==
    CASE s.exited \in BOOLEAN ->
    LET g == table_get(s.heap, s.globals, name)
    IN IF ~g.r
       THEN [s |-> runtime_error(s, "Undefined variable '%s'.", s.heap[name].chars),
             ok |-> FALSE]
       ELSE [s |-> vm_stack_push(s, g.value), ok |-> TRUE]

\* vm_process_set_global without the table_delete of the key it has just added
vm_process_set_global_keeps_key(s, name) ==
    CASE s.exited \in BOOLEAN ->
    LET assigned(a) ==
            IF a.r
            THEN [s |-> runtime_error(a.s, "Undefined variable '%s'.", s.heap[name].chars),
                  ok |-> FALSE]
            ELSE [s |-> a.s, ok |-> TRUE]
    IN assigned(Run(s, [name |-> "table_set", loc |-> GlobalsLoc, key |-> name, value |-> vm_stack_peek(s, 0)]))

\* vm.c vm_process_set_global
vm_process_set_global(s, name) ==
    CASE s.exited \in BOOLEAN ->
    LET assigned(a) ==
            IF a.r
            THEN [s |-> runtime_error(
                          [a.s EXCEPT !.globals = table_delete(a.s.heap, a.s.globals, name).t],
                          "Undefined variable '%s'.", s.heap[name].chars),
                  ok |-> FALSE]
            ELSE [s |-> a.s, ok |-> TRUE]
    IN assigned(Run(s, [name |-> "table_set", loc |-> GlobalsLoc, key |-> name, value |-> vm_stack_peek(s, 0)]))

\* vm.c vm_define_method
vm_define_method(s, name) ==
    CASE s.exited \in BOOLEAN ->
    LET closure == vm_stack_peek(s, 0)
        pcls == vm_stack_peek(s, 1).as
    IN vm_stack_pop(Run(s, [name |-> "table_set", loc |-> <<"methods", pcls>>, key |-> name, value |-> closure]).s)


\* vm.c bind_method
bind_method(s, pcls, name) ==
    CASE s.exited \in BOOLEAN ->
    LET found == table_get(s.heap, s.heap[pcls].methods, name)
        bound(a) == [s |-> vm_stack_push(vm_stack_pop(a.s), OBJ_VAL(a.r)), ok |-> TRUE]
    IN IF ~found.r
       THEN [s |-> runtime_error(s, "Undefined property '%s'.", s.heap[name].chars),
             ok |-> FALSE]
       ELSE bound(bound_method_create(s, vm_stack_peek(s, 0), found.value.as))

\* vm.c vm_process_get_property
vm_process_get_property(s, name) ==
    CASE s.exited \in BOOLEAN ->
    LET pinstance == vm_stack_peek(s, 0).as
        field == table_get(s.heap, s.heap[pinstance].fields, name)
    IN IF ~is_obj_kind(s.heap, vm_stack_peek(s, 0), "instance")
       THEN [s |-> runtime_error(s, "Only instances have properties.", <<>>), ok |-> FALSE]
       ELSE IF field.r
       THEN [s |-> vm_stack_push(vm_stack_pop(s), field.value), ok |-> TRUE]
       ELSE bind_method(s, s.heap[pinstance].cls, name)

\* vm.c vm_process_set_property
vm_process_set_property(s, name) ==
    CASE s.exited \in BOOLEAN ->
    LET pinstance == vm_stack_peek(s, 1).as
        stored(t) == [s |-> vm_stack_push(vm_stack_pop(vm_stack_pop(t)),
                                          vm_stack_peek(t, 0)),
                      ok |-> TRUE]
    IN IF ~is_obj_kind(s.heap, vm_stack_peek(s, 1), "instance")
       THEN [s |-> runtime_error(s, "Only instances have properties.", <<>>), ok |-> FALSE]
       ELSE stored(Run(s, [name |-> "table_set", loc |-> <<"fields", pinstance>>, key |-> name, value |-> vm_stack_peek(s, 0)]).s)

\* vm.c vm_invoke_from_class
vm_invoke_from_class(s, pcls, name, argc) ==
    CASE s.exited \in BOOLEAN ->
    LET found == table_get(s.heap, s.heap[pcls].methods, name)
    IN IF ~found.r
       THEN [s |-> runtime_error(s, "Undefined property '%s'.", s.heap[name].chars),
             ok |-> FALSE]
       ELSE vm_call(s, found.value.as, argc)

\* vm_invoke without the look into the instance's fields
vm_invoke_skips_fields(s, name, argc) ==
    CASE s.exited \in BOOLEAN ->
    LET receiver == vm_stack_peek(s, argc)
    IN IF ~is_obj_kind(s.heap, receiver, "instance")
       THEN [s |-> runtime_error(s, "Only instances have methods.", <<>>), ok |-> FALSE]
       ELSE vm_invoke_from_class(s, s.heap[receiver.as].cls, name, argc)

\* vm_invoke without `vm->stack_top[-argc - 1] = value`: the receiver stays in
\* the callee's slot when a field is invoked
vm_invoke_keeps_receiver(s, name, argc) ==
    CASE s.exited \in BOOLEAN ->
    LET receiver == vm_stack_peek(s, argc)
        field == table_get(s.heap, s.heap[receiver.as].fields, name)
    IN IF ~is_obj_kind(s.heap, receiver, "instance")
       THEN [s |-> runtime_error(s, "Only instances have methods.", <<>>), ok |-> FALSE]
       ELSE IF field.r
       THEN vm_call_value(s, field.value, argc)
       ELSE vm_invoke_from_class(s, s.heap[receiver.as].cls, name, argc)

\* vm.c vm_invoke
vm_invoke(s, name, argc) ==
    CASE s.exited \in BOOLEAN ->
    LET receiver == vm_stack_peek(s, argc)
        field == table_get(s.heap, s.heap[receiver.as].fields, name)
    IN IF ~is_obj_kind(s.heap, receiver, "instance")
       THEN [s |-> runtime_error(s, "Only instances have methods.", <<>>), ok |-> FALSE]
       ELSE IF field.r
       THEN vm_call_value([s EXCEPT !.stack[Len(s.stack) - argc] = field.value],
                          field.value, argc)
       ELSE vm_invoke_from_class(s, s.heap[receiver.as].cls, name, argc)

\* vm.c vm_process_invoke
vm_process_invoke(s, name, argc) == vm_invoke(s, name, argc)
(***************************************************************************)
(* vm.c vm_run: one turn of its for(;;) loop, i.e. one instruction.        *)
(* .result is "" while the loop goes on, else what vm_run returns;         *)
(* "SIGSEGV" stands for a read through a pointer into freed or unmapped    *)
(* memory that the process does not survive.                               *)
(***************************************************************************)
\* vm.c BINARY_OP (numbers are the doubles that are integers; a quotient is
\* only taken where it is one)
BINARY_OP(s, value_kind, op) ==
    CASE s.exited \in BOOLEAN ->
    IF vm_stack_peek(s, 0).kind # "number" \/ vm_stack_peek(s, 1).kind # "number"
    THEN [s |-> runtime_error(s, "Operands must be a numbers.", <<>>),
          result |-> "INTERPRETER_RUNTUME_ERROR"]
    ELSE LET rhs == vm_stack_peek(s, 0).as
             lhs == vm_stack_peek(s, 1).as
             v == CASE op = "-" -> NUMBER_VAL(lhs - rhs)
                    [] op = "*" -> NUMBER_VAL(lhs * rhs)
                    [] op = "/" -> NUMBER_VAL(lhs \div rhs)
                    [] op = ">" -> BOOL_VAL(lhs > rhs)
                    [] op = ">=" -> BOOL_VAL(lhs >= rhs)
                    [] op = "<" -> BOOL_VAL(lhs < rhs)
                    [] op = "<=" -> BOOL_VAL(lhs <= rhs)
         IN [s |-> vm_stack_push(vm_stack_pop(vm_stack_pop(s)), v), result |-> ""]

\* vm.c vm_run, case OP_CLOSURE: the loop over the upvalues of the closure
\* just pushed, each READ_BYTE moving the frame's ip
RECURSIVE vm_run_closure_upvalues(_, _)
vm_run_closure_upvalues(s, i) ==
    CASE s.exited \in BOOLEAN ->
    LET top == Len(s.frames)
        frame == s.frames[top]
        code == s.heap[s.heap[frame.pclosure].pfun].chunk.code
        pclosure == vm_stack_peek(s, 0).as
        is_local == code[frame.ip + 1]
        index == code[frame.ip + 2]
        read == [s EXCEPT !.frames[top].ip = @ + 2]
        captured(c) == [c.s EXCEPT !.heap[pclosure].upvalues[i + 1] = c.r]
    IN IF s.exited \/ i >= s.heap[pclosure].upvalue_count THEN s
       ELSE vm_run_closure_upvalues(
                IF is_local # 0 THEN captured(capture_upvalue(read, frame.slots + index + 1))
                ELSE [read EXCEPT !.heap[pclosure].upvalues[i + 1] =
                                      s.heap[frame.pclosure].upvalues[index + 1]],
                i + 1)

\* vm.c vm_run, one turn of the loop
vm_run_step(s) ==
    CASE s.exited \in BOOLEAN ->
    LET top == Len(s.frames)
        frame == s.frames[top]
        pfun == s.heap[frame.pclosure].pfun
        chunk == s.heap[pfun].chunk
        byte(k) == chunk.code[frame.ip + 1 + k]
        has(k) == frame.ip + 1 + k <= Len(chunk.code)
        instruction == OpName(byte(0))
        SKIP_BYTES(t, n) == [t EXCEPT !.frames[top].ip = frame.ip + n]
        long_index == byte(1) * 65536 + byte(2) * 256 + byte(3)
        long == instruction \in {"OP_CONSTANT_LONG", "OP_DEFINE_GLOBAL_LONG",
                                 "OP_GET_GLOBAL_LONG", "OP_SET_GLOBAL_LONG",
                                 "OP_CLASS_LONG", "OP_METHOD_LONG",
                                 "OP_GET_PROPERTY_LONG", "OP_SET_PROPERTY_LONG",
                                 "OP_INVOKE_LONG"}
        index == IF long THEN long_index ELSE byte(1)
        \* the bytes the case consumes: the long forms of OP_METHOD,
        \* OP_GET_PROPERTY and OP_SET_PROPERTY do not SKIP_BYTES(3)
        width == CASE instruction \in {"OP_METHOD_LONG", "OP_GET_PROPERTY_LONG",
                                       "OP_SET_PROPERTY_LONG"} -> 1
                   [] instruction = "OP_INVOKE" -> 3
                   [] instruction = "OP_INVOKE_LONG" -> 5
                   [] OTHER -> IF long THEN 4 ELSE 2
        argc == IF long THEN byte(4) ELSE byte(2)
        READ_CONSTANT == chunk.constants.values[index + 1]
        go(t) == [s |-> t, result |-> ""]
        fail(a) == IF a.ok THEN [s |-> a.s, result |-> ""]
                   ELSE [s |-> a.s, result |-> "INTERPRETER_RUNTUME_ERROR"]
        segv == [s |-> [s EXCEPT !.crashed = TRUE], result |-> "SIGSEGV"]
        s1 == SKIP_BYTES(s, 1)
        s2 == SKIP_BYTES(s, 2)
        sw == SKIP_BYTES(s, width)
    IN IF ~has(0) THEN segv
       ELSE IF instruction \in {"OP_CONSTANT", "OP_CONSTANT_LONG", "OP_DEFINE_GLOBAL",
                                "OP_DEFINE_GLOBAL_LONG", "OP_GET_GLOBAL", "OP_GET_GLOBAL_LONG",
                                "OP_SET_GLOBAL", "OP_SET_GLOBAL_LONG", "OP_CLOSURE",
                                "OP_CLASS", "OP_CLASS_LONG", "OP_METHOD", "OP_METHOD_LONG",
                                "OP_GET_PROPERTY", "OP_GET_PROPERTY_LONG",
                                "OP_SET_PROPERTY", "OP_SET_PROPERTY_LONG",
                                "OP_INVOKE", "OP_INVOKE_LONG"}
               /\ (~has(CASE instruction = "OP_INVOKE" -> 2
                          [] instruction = "OP_INVOKE_LONG" -> 4
                          [] OTHER -> IF long THEN 3 ELSE 1)
                     \/ index + 1 > Len(chunk.constants.values))
       THEN segv
       ELSE
       CASE instruction \in {"OP_CONSTANT", "OP_CONSTANT_LONG"} ->
                go(vm_stack_push(sw, READ_CONSTANT))
         [] instruction = "OP_NIL" -> go(vm_stack_push(s1, NIL_VAL))
         [] instruction = "OP_TRUE" -> go(vm_stack_push(s1, BOOL_VAL(TRUE)))
         [] instruction = "OP_FALSE" -> go(vm_stack_push(s1, BOOL_VAL(FALSE)))
         [] instruction = "OP_ADD" ->
                IF is_obj_kind(s.heap, vm_stack_peek(s, 0), "string")
                       /\ is_obj_kind(s.heap, vm_stack_peek(s, 1), "string")
                THEN go(concatenate(s1))
                ELSE IF vm_stack_peek(s, 0).kind = "number"
                            /\ vm_stack_peek(s, 1).kind = "number"
                THEN go(vm_stack_push(vm_stack_pop(vm_stack_pop(s1)),
                            NUMBER_VAL(vm_stack_peek(s, 1).as + vm_stack_peek(s, 0).as)))
                ELSE [s |-> runtime_error(s1, "Operands must be two numbers or two strings.",
                                          <<>>),
                      result |-> "INTERPRETER_RUNTUME_ERROR"]
         [] instruction = "OP_SUBSTRACT" -> BINARY_OP(s1, "NUMBER_VAL", "-")
         [] instruction = "OP_MULTIPLY" -> BINARY_OP(s1, "NUMBER_VAL", "*")
         [] instruction = "OP_DIVIDE" -> BINARY_OP(s1, "NUMBER_VAL", "/")
         [] instruction = "OP_GREATER" -> BINARY_OP(s1, "BOOL_VAL", ">")
         [] instruction = "OP_GREATER_EQUAL" -> BINARY_OP(s1, "BOOL_VAL", ">=")
         [] instruction = "OP_LESS" -> BINARY_OP(s1, "BOOL_VAL", "<")
         [] instruction = "OP_LESS_EQUAL" -> BINARY_OP(s1, "BOOL_VAL", "<=")
         [] instruction = "OP_NOT" ->
                go(vm_stack_push(vm_stack_pop(s1), BOOL_VAL(is_falsey(vm_stack_peek(s, 0)))))
         [] instruction = "OP_EQUAL" ->
                go(vm_stack_push(vm_stack_pop(vm_stack_pop(s1)),
                        BOOL_VAL(values_equal(vm_stack_peek(s, 1), vm_stack_peek(s, 0)))))
         [] instruction = "OP_NOT_EQUAL" ->
                go(vm_stack_push(vm_stack_pop(vm_stack_pop(s1)),
                        BOOL_VAL(~values_equal(vm_stack_peek(s, 1), vm_stack_peek(s, 0)))))
         [] instruction = "OP_NEGATE" ->
                IF vm_stack_peek(s, 0).kind # "number"
                THEN [s |-> runtime_error(s1, "Operand must be a number.", <<>>),
                      result |-> "INTERPRETER_RUNTUME_ERROR"]
                ELSE go([s1 EXCEPT !.stack[Len(s.stack)].as = 0 - @])
         [] instruction = "OP_PRINT" ->
                go([vm_stack_pop(s1) EXCEPT
                       !.out = Append(@, value_print(s, vm_stack_peek(s, 0)))])
         [] instruction = "OP_POP" -> go(vm_stack_pop(s1))
         [] instruction \in {"OP_DEFINE_GLOBAL", "OP_DEFINE_GLOBAL_LONG"} ->
                go(vm_process_define_global(sw, READ_CONSTANT.as))
         [] instruction \in {"OP_GET_GLOBAL", "OP_GET_GLOBAL_LONG"} ->
                fail(vm_process_get_global(sw, READ_CONSTANT.as))
         [] instruction \in {"OP_SET_GLOBAL", "OP_SET_GLOBAL_LONG"} ->
                fail(vm_process_set_global(sw, READ_CONSTANT.as))
         [] instruction = "OP_GET_LOCAL" ->
                go(vm_stack_push(s2, StackAt(s, frame.slots + byte(1) + 1)))
         [] instruction = "OP_SET_LOCAL" ->
                go(StackPut(s2, frame.slots + byte(1) + 1, vm_stack_peek(s, 0)))
         [] instruction = "OP_GET_UPVALUE" ->
                LET up == s.heap[s.heap[frame.pclosure].upvalues[byte(1) + 1]]
                IN go(vm_stack_push(s2, IF up.location = 0 THEN up.closed
                                        ELSE StackAt(s, up.location)))
         [] instruction = "OP_SET_UPVALUE" ->
                LET p == s.heap[frame.pclosure].upvalues[byte(1) + 1]
                IN go(IF s.heap[p].location = 0
                      THEN [s2 EXCEPT !.heap[p].closed = vm_stack_peek(s, 0)]
                      ELSE StackPut(s2, s.heap[p].location, vm_stack_peek(s, 0)))
         [] instruction = "OP_JUMP" ->
                go(SKIP_BYTES(s, 1 + byte(1) * 256 + byte(2) + 2))
         [] instruction = "OP_JUMP_IF_FALSE" ->
                go(SKIP_BYTES(s, 1 + (IF is_falsey(vm_stack_peek(s, 0))
                                      THEN byte(1) * 256 + byte(2) ELSE 0) + 2))
         [] instruction = "OP_LOOP" ->
                go(SKIP_BYTES(s, 1 - (byte(1) * 256 + byte(2)) + 2))
         [] instruction = "OP_CALL" ->
                IF byte(1) + 1 > Len(s.stack) THEN segv
                ELSE fail(vm_call_value(s2, vm_stack_peek(s, byte(1)), byte(1)))
         [] instruction \in {"OP_INVOKE", "OP_INVOKE_LONG"} ->
                IF argc + 1 > Len(s.stack) THEN segv
                ELSE fail(vm_process_invoke(sw, READ_CONSTANT.as, argc))
         [] instruction = "OP_CLOSURE" ->
                IF ~has(1 + 2 * s.heap[READ_CONSTANT.as].upvalue_count) THEN segv
                ELSE go(vm_run_closure_upvalues(
                            PushObj(closure_create(s2, READ_CONSTANT.as)), 0))
         [] instruction = "OP_CLOSE_UPVALUE" ->
                go(vm_stack_pop(close_upvalues(s1, Len(s.stack))))
         [] instruction \in {"OP_CLASS", "OP_CLASS_LONG"} ->
                go(PushObj(class_create(sw, READ_CONSTANT.as)))
         [] instruction \in {"OP_GET_PROPERTY", "OP_GET_PROPERTY_LONG"} ->
                fail(vm_process_get_property(sw, READ_CONSTANT.as))
         [] instruction \in {"OP_SET_PROPERTY", "OP_SET_PROPERTY_LONG"} ->
                fail(vm_process_set_property(sw, READ_CONSTANT.as))
         [] instruction \in {"OP_METHOD", "OP_METHOD_LONG"} ->
                go(vm_define_method(sw, READ_CONSTANT.as))
         [] instruction = "OP_RETURN" ->
                LET result == vm_stack_peek(s, 0)
                    t1 == close_upvalues(vm_stack_pop(s1), frame.slots + 1)
                    t2 == [t1 EXCEPT !.frames = SubSeq(@, 1, top - 1)]
                IN IF 0 = top - 1
                   THEN [s |-> vm_stack_pop(t2), result |-> "INTERPRET_OK"]
                   ELSE go(vm_stack_push(StackTop(t2, frame.slots),
                                         result))
         [] OTHER -> go(s1)

\* vm.c vm_run, one turn of the loop; the process dies in it when a push found
\* the value stack full
vm_run_turn(a) ==
    IF a.s.crashed /\ a.result = "" THEN [a EXCEPT !.result = "SIGSEGV"] ELSE a

\* vm.c vm_run: n turns of its loop, or fewer when it returns or the process
\* dies (the first half of them, then the rest)
RECURSIVE vm_run_for(_, _)
vm_run_for(a, n) ==
    CASE a.s.exited \in BOOLEAN ->
    IF n = 0 \/ a.result # "" \/ a.s.exited THEN a
    ELSE IF n = 1 THEN vm_run_turn(vm_run_step(a.s))
    ELSE vm_run_for(vm_run_for(a, n \div 2), n - n \div 2)

\* vm.c vm_interpret, the call of the script's closure `a.r`
vm_interpret_call(a) ==
    vm_call_value(vm_stack_push(vm_stack_pop(a.s), OBJ_VAL(a.r)), OBJ_VAL(a.r), 0).s

\* vm.c vm_interpret, from compile's return on
vm_interpret_compiled(c) ==
    IF NULL = c.r THEN [s |-> c.s, r |-> NULL]
    ELSE [s |-> vm_interpret_call(closure_create(vm_stack_push(c.s, OBJ_VAL(c.r)), c.r)),
          r |-> c.r]

\* vm.c vm_interpret up to the call of vm_run; .r is NULL after a compile error
vm_interpret(s, source) == vm_interpret_compiled(compile(s, source))

(***************************************************************************)
(* compiler.c on a text given as its tokens: the Pratt parser itself, for  *)
(* texts made of numbers, names, '+', ';', '{', '}', '(', ')', `print`,    *)
(* `class` and characters the scanner does not know.  The handlers emit    *)
(* through the same functions as the handlers of the parse trees.          *)
(***************************************************************************)
RECURSIVE parse_precedence(_, _)
RECURSIVE declaration_handler_tokens(_)
RECURSIVE argument_list_loop(_, _)
RECURSIVE function_params_loop(_)

\* compiler.c Precedence, lowest first
Precedence ==
    <<"PREC_NONE", "PREC_ASSIGMENT", "PREC_OR", "PREC_AND", "PREC_EQUALITY",
      "PREC_COMPARISON", "PREC_TERM", "PREC_FACTOR", "PREC_UNARY", "PREC_CALL",
      "PREC_PRIMARY">>

Prec(name) == CHOOSE i \in 1..Len(Precedence) : Precedence[i] = name

\* a ParseRule without a handler
NoRule == ""

\* compiler.c rules / get_rule, the rows of the tokens above
get_rule(kind) ==
    CASE kind = "TOK_NUMBER" ->
             [prefix |-> "number_handler", infix |-> NoRule, precedence |-> Prec("PREC_NONE")]
      [] kind = "TOK_PLUS" ->
             [prefix |-> NoRule, infix |-> "binary_handler", precedence |-> Prec("PREC_TERM")]
      [] kind = "TOK_LEFT_PAREN" ->
             [prefix |-> "grouping_handler", infix |-> "call_handler",
              precedence |-> Prec("PREC_CALL")]
      [] kind = "TOK_IDENTIFIER" ->
             [prefix |-> "variable_handler", infix |-> NoRule, precedence |-> Prec("PREC_NONE")]
      [] kind \in {"TOK_SEMICOLON", "TOK_LEFT_BRACE", "TOK_RIGHT_BRACE", "TOK_PRINT",
                   "TOK_RIGHT_PAREN", "TOK_COMMA", "TOK_CLASS", "TOK_ERROR", "TOK_EOF"} ->
             [prefix |-> NoRule, infix |-> NoRule, precedence |-> Prec("PREC_NONE")]

\* stdlib strtod, of the number lexemes of the texts
strtod(start) ==
    CASE start = "1" -> 1
      [] start = "2" -> 2

\* compiler.c number_handler
number_handler(s) == emit_constant(s, NUMBER_VAL(strtod(s.parser.previous.start)))

\* compiler.c binary_handler; the operator is '+'
binary_handler(s) ==
    LET emit(operand) == CASE operand.exited \in BOOLEAN -> emit_byte(operand, Op("OP_ADD"))
    IN emit(Run(s, [name |-> "parse_precedence",
                    precedence |-> get_rule(s.parser.previous.kind).precedence + 1]))

\* compiler.c grouping_handler
grouping_handler(s) ==
    consume(Run(s, [name |-> "parse_precedence", precedence |-> Prec("PREC_ASSIGMENT")]), "TOK_RIGHT_PAREN",
            "Expect ')' after expression.")

\* compiler.c variable_handler; the texts have no '=', the name is read
variable_handler(s) ==
    Run(s, [name |-> "named_variable", ident |-> Bytes(s.parser.previous.start),
            rhs |-> NoExpr])

\* compiler.c argument_list, `while (match(TOK_COMMA))`; .r is arg_count (a u8)
argument_list_more(m, arg_count) ==
    IF m.r /\ ~m.s.exited THEN argument_list_loop(m.s, arg_count)
    ELSE [s |-> m.s, r |-> arg_count]

\* compiler.c argument_list, one turn of the do-while loop
argument_list_loop(s, arg_count) ==
    CASE s.exited \in BOOLEAN ->
    argument_list_more(
        match(IF 255 = arg_count
              THEN error(Run(s, [name |-> "parse_precedence", precedence |-> Prec("PREC_ASSIGMENT")]),
                         "Can't have more than 255 arguments.")
              ELSE Run(s, [name |-> "parse_precedence", precedence |-> Prec("PREC_ASSIGMENT")]),
              "TOK_COMMA"),
        (arg_count + 1) % 256)

\* compiler.c argument_list, its last two statements
argument_list_end(a) ==
    [s |-> consume(a.s, "TOK_RIGHT_PAREN", "Expect ')' after arguments."), r |-> a.r]

\* compiler.c argument_list of the tokens
argument_list_tokens(s) ==
    argument_list_end(IF ~check(s, "TOK_RIGHT_PAREN") THEN argument_list_loop(s, 0)
                      ELSE [s |-> s, r |-> 0])

\* compiler.c call_handler of the tokens
call_handler_tokens(s) == emit_opcode_with_constant(argument_list_tokens(s), "OP_CALL")

\* the prefix handler of a rule
prefix_rule(s, rule) ==
    CASE rule.prefix = "number_handler" -> number_handler(s)
      [] rule.prefix = "grouping_handler" -> grouping_handler(s)
      [] rule.prefix = "variable_handler" -> variable_handler(s)

\* the infix handler of a rule
infix_rule(s, rule) ==
    CASE rule.infix = "binary_handler" -> binary_handler(s)
      [] rule.infix = "call_handler" -> call_handler_tokens(s)

\* compiler.c parse_precedence, one turn of the loop over the infix operators
parse_precedence_turn(s) == infix_rule(s, get_rule(s.parser.previous.kind))

\* compiler.c parse_precedence, the loop over the infix operators
RECURSIVE parse_precedence_infix(_, _)
parse_precedence_infix(s, precedence) ==
    CASE s.exited \in BOOLEAN ->
    IF s.exited \/ precedence > get_rule(s.parser.current.kind).precedence THEN s
    ELSE parse_precedence_infix(parse_precedence_turn(advance(s)), precedence)

\* compiler.c parse_precedence, after advance()
parse_precedence_prefix(s, precedence) ==
    CASE s.exited \in BOOLEAN ->
    LET can_assign == precedence <= Prec("PREC_ASSIGMENT")
        assigned(t) == IF can_assign /\ check(t, "TOK_EQUAL")
                       THEN error(advance(t), "Invalid assigment target.") ELSE t
    IN IF get_rule(s.parser.previous.kind).prefix = NoRule
       THEN error(s, "Expect expression.")
       ELSE assigned(parse_precedence_infix(
                         prefix_rule(s, get_rule(s.parser.previous.kind)), precedence))

\* parse_precedence that looks for the prefix rule of the token before it
\* reads it
parse_precedence_peeks(s, precedence) ==
    CASE s.exited \in BOOLEAN ->
    IF get_rule(s.parser.current.kind).prefix = NoRule
    THEN error_at_current(s, "Expect expression.")
    ELSE parse_precedence_prefix(advance(s), precedence)

\* compiler.c parse_precedence
parse_precedence(s, precedence) ==
    CASE s.exited \in BOOLEAN ->
    parse_precedence_prefix(advance(s), precedence)

\* compiler.c print_st_handler
print_st_handler(s) ==
    LET emit(value) ==
            CASE value.exited \in BOOLEAN ->
                 emit_byte(consume(value, "TOK_SEMICOLON", "Expect ';' after value."),
                           Op("OP_PRINT"))
    IN emit(Run(s, [name |-> "parse_precedence", precedence |-> Prec("PREC_ASSIGMENT")]))

\* compiler.c expr_stmt_hanler
expr_stmt_hanler(s) ==
    LET emit(value) ==
            CASE value.exited \in BOOLEAN ->
                 emit_byte(consume(value, "TOK_SEMICOLON", "Expect ';' after value."),
                           Op("OP_POP"))
    IN emit(Run(s, [name |-> "parse_precedence", precedence |-> Prec("PREC_ASSIGMENT")]))

\* compiler.c block (of statement_handler)
RECURSIVE block_tokens(_)
block_tokens(s) ==
    CASE s.exited \in BOOLEAN ->
    IF s.exited \/ s.parser.stalled \/ check(s, "TOK_RIGHT_BRACE") \/ check(s, "TOK_EOF")
    THEN consume(s, "TOK_RIGHT_BRACE", "Expect '}' after block.")
    ELSE Run(Turn(s, Run(s, [name |-> "declaration_handler_tokens"])),
             [name |-> "block_tokens"])

\* compiler.c statement_handler; the texts have no if, for, return or while
statement_handler(s) ==
    IF check(s, "TOK_PRINT") THEN print_st_handler(advance(s))
    ELSE IF check(s, "TOK_LEFT_BRACE")
    THEN LET leave(body) == CASE body.exited \in BOOLEAN -> end_scope(body)
         IN leave(Run(begin_scope(advance(s)), [name |-> "block_tokens"]))
    ELSE expr_stmt_hanler(s)

\* compiler.c parse_variable of the tokens, after consume
parse_variable_previous(s) == parse_variable(s, Bytes(s.parser.previous.start))

\* compiler.c parse_variable of the tokens
parse_variable_tokens(s, error_msg) ==
    parse_variable_previous(consume(s, "TOK_IDENTIFIER", error_msg))

\* compiler.c function, `while (match(TOK_COMMA))`
function_params_more(m) ==
    IF m.r /\ ~m.s.exited THEN function_params_loop(m.s) ELSE m.s

\* compiler.c function, `++current_compiler->pfun->arity > 255`
function_params_arity(s) ==
    IF s.heap[Cur(s).pfun].arity > 255
    THEN error_at_current(s, "Cannot have more than 255 parameters.") ELSE s

\* compiler.c function, one turn of the loop over the parameters
function_params_loop(s) ==
    CASE s.exited \in BOOLEAN ->
    function_params_more(
        match(define_parsed(parse_variable_tokens(
                  function_params_arity([s EXCEPT !.heap[Cur(s).pfun].arity = @ + 1]),
                  "Expect parameter name.")),
              "TOK_COMMA"))

\* compiler.c function, the parameter list
function_params_tokens(s) ==
    consume(IF ~check(s, "TOK_RIGHT_PAREN") THEN function_params_loop(s) ELSE s,
            "TOK_RIGHT_PAREN", "Expect ')' after function name.")

\* compiler.c function of the tokens
function_tokens(s, fun_kind) ==
    CASE s.exited \in BOOLEAN ->
    LET closure(pfun) == CASE pfun.s.exited \in BOOLEAN -> function_closure(pfun)
        end(body) == CASE body.exited \in BOOLEAN -> closure(end_compiler(body))
        body(params) ==
            CASE params.exited \in BOOLEAN ->
                 end(Run(consume(params, "TOK_LEFT_BRACE",
                                 "Expect '{' before function body."),
                         [name |-> "block_tokens"]))
        params(compiler) ==
            CASE compiler.exited \in BOOLEAN ->
                 body(function_params_tokens(
                          consume(compiler, "TOK_LEFT_PAREN",
                                  "Expect '(' after function name.")))
    IN params(begin_scope(compiler_init(s, fun_kind, Bytes(s.parser.previous.start))))

\* compiler.c method, after the name constant; `name` is the lexeme of
\* parser.previous
method_function(constant, name) ==
    LET emit(closure) == CASE closure.exited \in BOOLEAN ->
                              emit_opcode_with_param(closure, "OP_METHOD", constant.r)
    IN emit(Run(constant.s, [name |-> "function_tokens",
                             fun_kind |-> IF name = "init" THEN "initializer"
                                          ELSE "method"]))

\* compiler.c method, after consume
method_named(s) ==
    method_function(identifier_constant(s, Bytes(s.parser.previous.start)),
                    s.parser.previous.start)

\* compiler.c method of the tokens
method_tokens(s) ==
    CASE s.exited \in BOOLEAN ->
    method_named(consume(s, "TOK_IDENTIFIER", "Expect method name."))

\* compiler.c class_decl_handler, the loop over the methods
RECURSIVE class_decl_methods_tokens(_)
class_decl_methods_tokens(s) ==
    CASE s.exited \in BOOLEAN ->
    IF s.exited \/ s.parser.stalled \/ check(s, "TOK_RIGHT_BRACE") \/ check(s, "TOK_EOF")
    THEN s
    ELSE class_decl_methods_tokens(Turn(s, Run(s, [name |-> "method_tokens"])))

\* the class declaration the tokens name: class_name is parser.previous; the
\* texts have no '<'
ClassNamed(s) == [name |-> Bytes(s.parser.previous.start), super |-> <<>>]

\* compiler.c class_decl_handler, from identifier_constant up to the '{'
class_decl_named(s) ==
    Run(class_decl_super(class_decl_begin(identifier_constant(s, ClassNamed(s).name),
                                          ClassNamed(s)),
                         ClassNamed(s)),
        [name |-> "named_variable", ident |-> ClassNamed(s).name, rhs |-> NoExpr])

\* compiler.c class_decl_handler of the tokens
class_decl_handler_tokens(s) ==
    CASE s.exited \in BOOLEAN ->
    LET end(methods) ==
            CASE methods.exited \in BOOLEAN ->
                 class_decl_end(
                     emit_byte(consume(methods, "TOK_RIGHT_BRACE",
                                       "Expect '}' after class body"),
                               Op("OP_POP")),
                     [super |-> <<>>])
        body(named) ==
            CASE named.exited \in BOOLEAN ->
                 end(class_decl_methods_tokens(
                         consume(named, "TOK_LEFT_BRACE", "Expect '{' before class body")))
    IN body(class_decl_named(consume(s, "TOK_IDENTIFIER", "Expect class name.")))

\* compiler.c declaration_handler; the texts have no fun or var
declaration_handler_tokens(s) ==
    CASE s.exited \in BOOLEAN ->
    LET end(declared) == CASE declared.exited \in BOOLEAN -> declaration_handler_end(declared)
    IN end(IF check(s, "TOK_CLASS")
           THEN Run(advance(s), [name |-> "class_decl_handler_tokens"])
           ELSE statement_handler(s))

\* compiler.c compile, the loop
RECURSIVE compile_declarations(_)
compile_declarations(s) ==
    CASE s.exited \in BOOLEAN ->
    IF s.exited \/ s.parser.stalled THEN s
    ELSE IF check(s, "TOK_EOF") THEN advance(s)
    ELSE compile_declarations(Turn(s, Run(s, [name |-> "declaration_handler_tokens"])))

\* scanner.c scanner_init
scanner_init(s, source) == [s EXCEPT !.parser.tokens = source, !.parser.pos = 1]

\* compiler.c compile; .r is the script function, NULL after a compile error
compile_tokens(s, source) ==
    CASE s.exited \in BOOLEAN ->
    LET parser(t) == [t EXCEPT !.had_error = FALSE, !.parser.panic_mode = FALSE,
                               !.parser.events = <<>>, !.parser.stalled = FALSE]
        compiled(e) == [s |-> e.s, r |-> IF e.s.had_error THEN NULL ELSE e.r]
    IN compiled(end_compiler(compile_declarations(advance(
           parser(compiler_init(scanner_init(s, source), "script", <<>>))))))

\* vm.c vm_interpret up to the call of vm_run, of a text given as its tokens
vm_interpret_tokens(s, source) == vm_interpret_compiled(compile_tokens(s, source))
(***************************************************************************)
(* main.c: the REPL.  Each line typed is a small program, given as its     *)
(* parse tree.                                                             *)
(***************************************************************************)
Num(n) == [t |-> "num", n |-> n]
Str(chars) == [t |-> "str", chars |-> chars]
Var(name) == [t |-> "var", name |-> name]
Assign(name, value) == [t |-> "assign", name |-> name, value |-> value]
Add(lhs, rhs) == [t |-> "add", lhs |-> lhs, rhs |-> rhs]
Call(callee, args) == [t |-> "call", callee |-> callee, args |-> args]
Get(obj, name) == [t |-> "get", obj |-> obj, name |-> name]
Set(obj, name, value) == [t |-> "set", obj |-> obj, name |-> name, value |-> value]
Invoke(obj, name, args) == [t |-> "invoke", obj |-> obj, name |-> name, args |-> args]
Literal(word) == [t |-> word]
And(lhs, rhs) == [t |-> "and", lhs |-> lhs, rhs |-> rhs]
Or(lhs, rhs) == [t |-> "or", lhs |-> lhs, rhs |-> rhs]
This == [t |-> "this"]
Super(name) == [t |-> "super", name |-> name]
SuperInvoke(name, args) == [t |-> "superinvoke", name |-> name, args |-> args]
PrintStmt(e) == [t |-> "print", e |-> e]
ExprStmt(e) == [t |-> "expr", e |-> e]
If(cond, body, orelse) == [t |-> "if", cond |-> cond, body |-> body, orelse |-> orelse]
While(cond, body) == [t |-> "while", cond |-> cond, body |-> body]
VarDecl(name, init) == [t |-> "var", name |-> name, init |-> init]
FunDecl(name, params, body) == [t |-> "fun", name |-> name, params |-> params, body |-> body]
Method(name, params, body) == [name |-> name, params |-> params, body |-> body]
ClassDecl(name, super, methods) ==
    [t |-> "class", name |-> name, super |-> super, methods |-> methods]

\* the lines a user may type; identifiers: x = <<120>>, y = <<121>>, r = <<114>>,
\* f = <<102>>, m = <<109>>, A = <<65>>, B = <<66>>, o = <<111>>
Programs ==
    { \* var y = 2; x = 1;
      << VarDecl(<<121>>, Num(2)), ExprStmt(Assign(<<120>>, Num(1))) >>,
      \* print x;
      << PrintStmt(Var(<<120>>)) >>,
      \* print y;
      << PrintStmt(Var(<<121>>)) >>,
      \* var x = 3;
      << VarDecl(<<120>>, Num(3)) >>,
      \* fun r() { r(); } r();
      << FunDecl(<<114>>, <<>>, << ExprStmt(Call(Var(<<114>>), <<>>)) >>),
         ExprStmt(Call(Var(<<114>>), <<>>)) >>,
      \* fun f() { x = 1; } f();
      << FunDecl(<<102>>, <<>>, << ExprStmt(Assign(<<120>>, Num(1))) >>),
         ExprStmt(Call(Var(<<102>>), <<>>)) >>,
      \* class A { m() {} }  var o = A();
      << ClassDecl(<<65>>, <<>>, << Method(<<109>>, <<>>, <<>>) >>),
         VarDecl(<<111>>, Call(Var(<<65>>), <<>>)) >>,
      \* class B < A {}
      << ClassDecl(<<66>>, <<65>>, <<>>) >>,
      \* print "x"; print "y";
      << PrintStmt(Str(<<120>>)), PrintStmt(Str(<<121>>)) >>,
      \* print "x" + "y";
      << PrintStmt(Add(Str(<<120>>), Str(<<121>>))) >> }

\* whether a line is given as its tokens
IsText(source) == source # <<>> /\ "kind" \in DOMAIN source[1]

\* memory.c free_objects
free_objects(s) ==
    CASE s.exited \in BOOLEAN ->
    Run(s, [name |-> "for_each", visit |-> "free", over |-> s.objects,
            lo |-> 1, hi |-> Len(s.objects)])

\* table.c table_free
table_free(s, loc) ==
    CASE s.exited \in BOOLEAN ->
    WithTable(FREE_ARRAY(s, "Entry", TableAt(s, loc).capacity), loc, table_init)

\* vm.c vm_free
vm_free(s) ==
    CASE s.exited \in BOOLEAN ->
    free_objects([table_free(table_free(s, GlobalsLoc), StringsLoc)
                     EXCEPT !.init_string = NULL])

\* main.c run_file, what it returns for the result of vm_interpret
run_file_result(result) ==
    CASE result = "INTERPRET_COMPILE_ERROR" -> 65
      [] result = "INTERPRETER_RUNTUME_ERROR" -> 70
      [] OTHER -> 0

\* main.c run_file and the end of main: vm_interpret, and vm_free once it has
\* returned, which is at once for a file that does not compile
run_file(s, source) ==
    CASE s.exited \in BOOLEAN ->
    LET returned(a) == IF ~a.s.exited /\ a.r = NULL
                       THEN [a EXCEPT !.s = Run(a.s, [name |-> "vm_free"])]
                       ELSE a
    IN returned(Run(s, [name |-> "vm_interpret", source |-> source]))

\* the next instruction of a script file; when vm_run returns so do
\* vm_interpret and run_file, and main frees the VM
run_file_step(s) ==
    CASE s.exited \in BOOLEAN ->
    LET returned(a) == IF ~a.s.exited /\ a.result \notin {"", "SIGSEGV"}
                       THEN [a EXCEPT !.s = Run(a.s, [name |-> "vm_free"])]
                       ELSE a
    IN returned(Run(s, [name |-> "vm_run"]))

\* The program's functions, by name: run `op` on the state s.  The entries
\* into the program and the calls between its larger functions go through it.
Run(s, op) ==
    CASE op.name = "collect_garbage" -> collect_garbage(s)
      [] op.name = "vm_init" -> vm_init(s)
      [] op.name = "vm_interpret" -> IF IsText(op.source) THEN vm_interpret_tokens(s, op.source)
                                     ELSE vm_interpret(s, op.source)
      [] op.name = "vm_run" -> vm_run_turn(vm_run_step(s))
      [] op.name = "string_copy" -> string_copy(s, op.chars)
      [] op.name = "table_set" -> table_set(s, op.loc, op.key, op.value)
      [] op.name = "reallocate" -> reallocate(s, op.old_size, op.new_size)
      [] op.name = "chunk_write" -> chunk_write(s, op.pfun, op.byte, op.line)
      [] op.name = "chunk_write_bytes" -> chunk_write_bytes(s, op.pfun, op.bytes, op.line)
      [] op.name = "object_allocate" -> object_allocate(s, op.size, op.kind, op.fields)
      [] op.name = "chunk_add_constant" -> chunk_add_constant(s, op.pfun, op.constant)
      [] op.name = "expression" -> expression(s, op.e)
      [] op.name = "named_variable" -> named_variable(s, op.ident, op.rhs)
      [] op.name = "declaration_handler" -> declaration_handler(s, op.d)
      [] op.name = "statement" -> statement(s, op.d)
      [] op.name = "for_each" -> for_each(s, op)
      [] op.name = "vm_free" -> vm_free(s)
      [] op.name = "compiler_init" -> compiler_init(s, op.fun_kind, op.ident)
      [] op.name = "fun_decl_begin" -> fun_decl_begin(s, op.ident)
      [] op.name = "run_file" -> run_file(s, op.source)
      [] op.name = "run_file_step" -> run_file_step(s)
      [] op.name = "parse_precedence" -> parse_precedence(s, op.precedence)
      [] op.name = "declaration_handler_tokens" -> declaration_handler_tokens(s)
      [] op.name = "block_tokens" -> block_tokens(s)
      [] op.name = "function_tokens" -> function_tokens(s, op.fun_kind)
      [] op.name = "class_decl_handler_tokens" -> class_decl_handler_tokens(s)
      [] op.name = "method_tokens" -> method_tokens(s)

NoTable == [op |-> "none", key |-> <<>>, r |-> FALSE, expect |-> FALSE,
            n |-> 0, grew |-> FALSE, reused |-> FALSE]

NoRef == [phase |-> 0, session |-> <<>>, out |-> <<>>, status |-> <<>>]

\* main.c main/repl: the process has run vm_init and waits for a line
Boot(stress, reuse) ==
    /\ vm = Run(BlankVm(stress, reuse), [name |-> "vm_init"])
    /\ pc = "repl"
    /\ lines = <<>>
    /\ status = <<>>
    /\ ref = NoRef
    /\ abs = <<>>
    /\ tableOp = NoTable
    /\ main = [argc |-> 1, exit_code |-> 0]

\* the build as shipped (common.h leaves DEBUG_STRESS_GC commented out)
Init == Boot(FALSE, FALSE)

\* the build with DEBUG_STRESS_GC defined
InitStress == \E reuse \in BOOLEAN : Boot(TRUE, reuse)

\* the first constant index that emit_opcode_with_param gives the long form
ShortOperands == 256

\* 0; 0; ... 0;  one numeric constant each, so that the constants of what
\* follows have indices from ShortOperands on
Pad == [i \in 1..ShortOperands |-> ExprStmt(Num(0))]

\* the line with the constants in front, unless it opens with a class
\* declaration (methods are functions, and the compiler has no long form of
\* OP_CLOSURE)
Padded(line) == IF line[1].t = "class" THEN line ELSE Pad \o line

\* main.c repl: one line is read and handed to vm_interpret, which compiles
\* it and sets up the script's frame; in a padded replay the line is typed
\* with the constants in front, and lines keeps it as it was first typed
Interpret(line) ==
    /\ pc = "repl"
    /\ Len(lines) < MaxLines
    /\ ref.phase # 0 => (Len(lines) < Len(ref.session) /\ line = ref.session[Len(lines) + 1])
    /\ LET Compiled(a) ==
               IF a.s.exited
               THEN /\ vm' = [vm EXCEPT !.exited = TRUE]
                    /\ pc' = "exit"
                    /\ UNCHANGED status
               ELSE /\ vm' = a.s
                    /\ pc' = IF a.r = NULL THEN "repl" ELSE "run"
                    /\ status' = IF a.r = NULL
                                 THEN Append(status, "INTERPRET_COMPILE_ERROR")
                                 ELSE status
       IN Compiled(Run(vm, [name |-> "vm_interpret",
                            source |-> IF ref.phase = 2 THEN Padded(line) ELSE line]))
    /\ lines' = Append(lines, line)
    /\ UNCHANGED <<ref, abs, tableOp, main>>

\* vm.c vm_run: the next instruction; when vm_run returns so does vm_interpret
\* (and, for a script file, run_file and main)
Step ==
    /\ pc = "run"
    /\ LET Done(a) ==
               IF a.s.exited
               THEN /\ vm' = [vm EXCEPT !.exited = TRUE]
                    /\ pc' = "exit"
                    /\ UNCHANGED <<status, main>>
               ELSE /\ vm' = a.s
                    /\ pc' = IF a.result = "" THEN "run"
                             ELSE IF a.result = "SIGSEGV" \/ main.argc = 2 THEN "exit"
                             ELSE "repl"
                    /\ status' = IF a.result = "" THEN status ELSE Append(status, a.result)
                    \* run_file: what main returns
                    /\ main' = IF a.result \notin {"", "SIGSEGV"} /\ main.argc = 2
                               THEN [main EXCEPT !.exit_code = run_file_result(a.result)]
                               ELSE main
       IN Done(Run(vm, [name |-> IF main.argc = 2 THEN "run_file_step" ELSE "vm_run"]))
    /\ UNCHANGED <<lines, ref, abs, tableOp>>

Next ==
    \/ \E line \in Programs : Interpret(line)
    \/ Step

Spec == Init /\ [][Next]_vars

SpecStress == InitStress /\ [][Next]_vars

\* The session typed so far is typed again, line by line, into a fresh process
\* of the build with DEBUG_STRESS_GC; ref keeps what the shipped build printed
\* and returned for it.
Rerun ==
    /\ pc = "repl"
    /\ ref.phase = 0
    /\ lines # <<>>
    /\ \E reuse \in BOOLEAN :
           vm' = Run(BlankVm(TRUE, reuse), [name |-> "vm_init"])
    /\ ref' = [phase |-> 1, session |-> lines, out |-> vm.out, status |-> status]
    /\ pc' = "repl"
    /\ lines' = <<>>
    /\ status' = <<>>
    /\ UNCHANGED <<abs, tableOp, main>>

NextModes ==
    \/ \E line \in Programs : Interpret(line)
    \/ Step
    \/ Rerun

SpecModes == Init /\ [][NextModes]_vars


(***************************************************************************)
(* Sessions whose lines declare functions that capture locals.             *)
(***************************************************************************)
ReturnStmt(e) == [t |-> "return", e |-> e]
Block(body) == [t |-> "block", body |-> body]

\* fun k() { var i = 0; fun c() { i = i + 1; return i; } return c; }
\* var c = k(); print c(); print c(); print c();
Counter ==
    << FunDecl(<<107>>, <<>>,
               << VarDecl(<<105>>, Num(0)),
                  FunDecl(<<99>>, <<>>,
                          << ExprStmt(Assign(<<105>>, Add(Var(<<105>>), Num(1)))),
                             ReturnStmt(Var(<<105>>)) >>),
                  ReturnStmt(Var(<<99>>)) >>),
       VarDecl(<<99>>, Call(Var(<<107>>), <<>>)),
       PrintStmt(Call(Var(<<99>>), <<>>)),
       PrintStmt(Call(Var(<<99>>), <<>>)),
       PrintStmt(Call(Var(<<99>>), <<>>)) >>

\* var g = 0; { var a = 1; fun h() { a = a + 1; return a; } g = h; }
\* print g(); print g();
BlockOne ==
    << VarDecl(<<103>>, Num(0)),
       Block(<< VarDecl(<<97>>, Num(1)),
                FunDecl(<<104>>, <<>>,
                        << ExprStmt(Assign(<<97>>, Add(Var(<<97>>), Num(1)))),
                           ReturnStmt(Var(<<97>>)) >>),
                ExprStmt(Assign(<<103>>, Var(<<104>>))) >>),
       PrintStmt(Call(Var(<<103>>), <<>>)),
       PrintStmt(Call(Var(<<103>>), <<>>)) >>

\* var g = 0; { var a = 1; fun m() { fun n() { return a; } return n; } g = m(); }
\* print g();
BlockTwo ==
    << VarDecl(<<103>>, Num(0)),
       Block(<< VarDecl(<<97>>, Num(1)),
                FunDecl(<<109>>, <<>>,
                        << FunDecl(<<110>>, <<>>, << ReturnStmt(Var(<<97>>)) >>),
                           ReturnStmt(Var(<<110>>)) >>),
                ExprStmt(Assign(<<103>>, Call(Var(<<109>>), <<>>))) >>),
       PrintStmt(Call(Var(<<103>>), <<>>)) >>

\* var s = 0; var t = 0;
\* { var v = 1; fun p() { v = v + 1; } fun q() { return v; }
\*   p(); print q(); v = 5; print q(); s = p; t = q; }
\* s(); print t();
Shared ==
    << VarDecl(<<115>>, Num(0)),
       VarDecl(<<116>>, Num(0)),
       Block(<< VarDecl(<<118>>, Num(1)),
                FunDecl(<<112>>, <<>>,
                        << ExprStmt(Assign(<<118>>, Add(Var(<<118>>), Num(1)))) >>),
                FunDecl(<<113>>, <<>>, << ReturnStmt(Var(<<118>>)) >>),
                ExprStmt(Call(Var(<<112>>), <<>>)),
                PrintStmt(Call(Var(<<113>>), <<>>)),
                ExprStmt(Assign(<<118>>, Num(5))),
                PrintStmt(Call(Var(<<113>>), <<>>)),
                ExprStmt(Assign(<<115>>, Var(<<112>>))),
                ExprStmt(Assign(<<116>>, Var(<<113>>))) >>),
       ExprStmt(Call(Var(<<115>>), <<>>)),
       PrintStmt(Call(Var(<<116>>), <<>>)) >>

\* { var a = 1; var b = 2; var c = 3;
\*   fun f() { return c; } fun g() { return a; } fun h() { return b + a; }
\*   print h(); print f() + g(); }
ThreeSlots ==
    << Block(<< VarDecl(<<97>>, Num(1)),
                VarDecl(<<98>>, Num(2)),
                VarDecl(<<99>>, Num(3)),
                FunDecl(<<102>>, <<>>, << ReturnStmt(Var(<<99>>)) >>),
                FunDecl(<<103>>, <<>>, << ReturnStmt(Var(<<97>>)) >>),
                FunDecl(<<104>>, <<>>, << ReturnStmt(Add(Var(<<98>>), Var(<<97>>))) >>),
                PrintStmt(Call(Var(<<104>>), <<>>)),
                PrintStmt(Add(Call(Var(<<102>>), <<>>), Call(Var(<<103>>), <<>>))) >>) >>

\* fun a(n) { fun b(d) { n = n + d; return n; } return b; }
\* var b = a(1); print b(2); print b(3);
Adder ==
    << FunDecl(<<97>>, << <<110>> >>,
               << FunDecl(<<98>>, << <<100>> >>,
                          << ExprStmt(Assign(<<110>>, Add(Var(<<110>>), Var(<<100>>)))),
                             ReturnStmt(Var(<<110>>)) >>),
                  ReturnStmt(Var(<<98>>)) >>),
       VarDecl(<<98>>, Call(Var(<<97>>), << Num(1) >>)),
       PrintStmt(Call(Var(<<98>>), << Num(2) >>)),
       PrintStmt(Call(Var(<<98>>), << Num(3) >>)) >>

ClosurePrograms == {Counter, BlockOne, BlockTwo, Shared, ThreeSlots, Adder}

NextClosures ==
    \/ \E line \in ClosurePrograms : Interpret(line)
    \/ Step

SpecClosures == Init /\ [][NextClosures]_vars

(***************************************************************************)
(* Sessions whose lines declare classes and use their instances.           *)
(* Identifiers: P = <<80>>, Q = <<81>>, E = <<69>>, F = <<70>>, n = <<110>>,*)
(* v = <<118>>, p = <<112>>, a = <<97>>, b = <<98>>, f = <<102>>,           *)
(* g = <<103>>, h = <<104>>, m = <<109>>, x = <<120>>, y = <<121>>.         *)
(***************************************************************************)
\* class P { init(n) { this.n = n; } }  var p = P(7); print p.n;
InitWithArg ==
    << ClassDecl(<<80>>, <<>>,
                 << Method(Bytes("init"), << <<110>> >>,
                           << ExprStmt(Set(This, <<110>>, Var(<<110>>))) >>) >>),
       VarDecl(<<112>>, Call(Var(<<80>>), << Num(7) >>)),
       PrintStmt(Get(Var(<<112>>), <<110>>)) >>

\* class Q { init() { this.v = 1; return; } }  print Q().v;
InitBareReturn ==
    << ClassDecl(<<81>>, <<>>,
                 << Method(Bytes("init"), <<>>,
                           << ExprStmt(Set(This, <<118>>, Num(1))),
                              ReturnStmt(NoExpr) >>) >>),
       PrintStmt(Get(Call(Var(<<81>>), <<>>), <<118>>)) >>

\* class E {}  var a = E(); var b = E(); a.f = 1; b.f = 2; print a.f; print b.f;
NoInit ==
    << ClassDecl(<<69>>, <<>>, <<>>),
       VarDecl(<<97>>, Call(Var(<<69>>), <<>>)),
       VarDecl(<<98>>, Call(Var(<<69>>), <<>>)),
       ExprStmt(Set(Var(<<97>>), <<102>>, Num(1))),
       ExprStmt(Set(Var(<<98>>), <<102>>, Num(2))),
       PrintStmt(Get(Var(<<97>>), <<102>>)),
       PrintStmt(Get(Var(<<98>>), <<102>>)) >>

\* class E {}  E(1);
NoInitWithArg ==
    << ClassDecl(<<69>>, <<>>, <<>>),
       ExprStmt(Call(Var(<<69>>), << Num(1) >>)) >>

\* class A { m() { return 1; } n() { return 2; } }
\* class B < A { n() { return 3; } }
\* var b = B(); print b.m(); print b.n();
Inherits ==
    << ClassDecl(<<65>>, <<>>,
                 << Method(<<109>>, <<>>, << ReturnStmt(Num(1)) >>),
                    Method(<<110>>, <<>>, << ReturnStmt(Num(2)) >>) >>),
       ClassDecl(<<66>>, <<65>>,
                 << Method(<<110>>, <<>>, << ReturnStmt(Num(3)) >>) >>),
       VarDecl(<<98>>, Call(Var(<<66>>), <<>>)),
       PrintStmt(Invoke(Var(<<98>>), <<109>>, <<>>)),
       PrintStmt(Invoke(Var(<<98>>), <<110>>, <<>>)) >>

\* var A = 1; class B < A {}
SuperNotAClass ==
    << VarDecl(<<65>>, Num(1)),
       ClassDecl(<<66>>, <<65>>, <<>>) >>

\* class F { m() { return 1; } }  var f = F(); var g = F();
\* fun h() { return 2; }  f.m = h;
\* print f.m(); print g.m(); var x = f.m; print x(); var y = g.m; print y();
Shadows ==
    << ClassDecl(<<70>>, <<>>, << Method(<<109>>, <<>>, << ReturnStmt(Num(1)) >>) >>),
       VarDecl(<<102>>, Call(Var(<<70>>), <<>>)),
       VarDecl(<<103>>, Call(Var(<<70>>), <<>>)),
       FunDecl(<<104>>, <<>>, << ReturnStmt(Num(2)) >>),
       ExprStmt(Set(Var(<<102>>), <<109>>, Var(<<104>>))),
       PrintStmt(Invoke(Var(<<102>>), <<109>>, <<>>)),
       PrintStmt(Invoke(Var(<<103>>), <<109>>, <<>>)),
       VarDecl(<<120>>, Get(Var(<<102>>), <<109>>)),
       PrintStmt(Call(Var(<<120>>), <<>>)),
       VarDecl(<<121>>, Get(Var(<<103>>), <<109>>)),
       PrintStmt(Call(Var(<<121>>), <<>>)) >>

ClassPrograms ==
    {InitWithArg, InitBareReturn, NoInit, NoInitWithArg, Inherits, SuperNotAClass, Shadows}

NextClasses ==
    \/ \E line \in ClassPrograms : Interpret(line)
    \/ Step

SpecClasses == Init /\ [][NextClasses]_vars

(***************************************************************************)
(* Sessions that are typed twice: as they are, and, into a fresh process,  *)
(* with so many constants in front of a line that every operand of the     *)
(* line needs the long form of its opcode.                                 *)
(***************************************************************************)
\* class A { m() { print 1; } }  var o = A();
Setup ==
    << ClassDecl(<<65>>, <<>>, << Method(<<109>>, <<>>, << PrintStmt(Num(1)) >>) >>),
       VarDecl(<<111>>, Call(Var(<<65>>), <<>>)) >>

\* var x = 3; print x; x = 4; print x; class C {} var c = C();
Globals ==
    << VarDecl(<<120>>, Num(3)),
       PrintStmt(Var(<<120>>)),
       ExprStmt(Assign(<<120>>, Num(4))),
       PrintStmt(Var(<<120>>)),
       ClassDecl(<<67>>, <<>>, <<>>),
       VarDecl(<<99>>, Call(Var(<<67>>), <<>>)) >>

\* o.f = 2; print o.f; o.m();
Props ==
    << ExprStmt(Set(Var(<<111>>), <<102>>, Num(2))),
       PrintStmt(Get(Var(<<111>>), <<102>>)),
       ExprStmt(Invoke(Var(<<111>>), <<109>>, <<>>)) >>

LongPrograms == {Setup, Globals, Props}

\* The session typed so far is typed again into a fresh process, where
\* Interpret pads its lines; ref keeps what the first process printed and
\* returned.
RerunPadded ==
    /\ pc = "repl"
    /\ ref.phase = 0
    /\ lines # <<>>
    /\ vm' = Run(BlankVm(FALSE, FALSE), [name |-> "vm_init"])
    /\ ref' = [phase |-> 2, session |-> lines, out |-> vm.out, status |-> status]
    /\ pc' = "repl"
    /\ lines' = <<>>
    /\ status' = <<>>
    /\ UNCHANGED <<abs, tableOp, main>>

NextLong ==
    \/ \E line \in LongPrograms : Interpret(line)
    \/ Step
    \/ RerunPadded

SpecLong == Init /\ [][NextLong]_vars

(***************************************************************************)
(* Lines typed as texts: a few statements in a row, well-formed ones and   *)
(* ones with one syntax error each.                                        *)
(***************************************************************************)
One == Token("TOK_NUMBER", "1")
Two == Token("TOK_NUMBER", "2")
Plus == Token("TOK_PLUS", "+")
Semicolon == Token("TOK_SEMICOLON", ";")
LeftBrace == Token("TOK_LEFT_BRACE", "{")
RightBrace == Token("TOK_RIGHT_BRACE", "}")
PrintKw == Token("TOK_PRINT", "print")
\* what scanner.c makes of a character such as '@'
Unexpected == Token("TOK_ERROR", "Unexpected character.")

ValidStatements ==
    { << One, Semicolon >>,                                     \* 1;
      << PrintKw, Two, Semicolon >>,                            \* print 2;
      << PrintKw, One, Plus, Two, Semicolon >>,                 \* print 1 + 2;
      << LeftBrace, PrintKw, One, Semicolon, RightBrace >> }    \* { print 1; }

ErroneousStatements ==
    { << PrintKw, Semicolon >>,                                 \* print ;
      << PrintKw, One >>,                                       \* print 1
      << One, Plus, Semicolon >>,                               \* 1 + ;
      << PrintKw, Unexpected, One, Semicolon >>,                \* print @ 1;
      << LeftBrace, PrintKw, One, RightBrace >>,                \* { print 1 }
      << LeftBrace, PrintKw, One, Semicolon >>,                 \* { print 1;
      << RightBrace >> }                                        \* }

Statements == ValidStatements \cup ErroneousStatements

\* the texts of up to MaxStatements statements
RECURSIVE Join(_)
Join(statements) ==
    IF statements = <<>> THEN <<>> ELSE Head(statements) \o Join(Tail(statements))

TextsOf(n) == { Join(statements) : statements \in [1..n -> Statements] }

Texts == UNION { TextsOf(n) : n \in 1..MaxStatements }

\* the texts with exactly one erroneous statement, among n statements
OneErroneous(n) ==
    { Join(statements) : statements \in
          { f \in [1..n -> Statements] :
                Cardinality({i \in 1..n : f[i] \in ErroneousStatements}) = 1 } }

\* a process is given one text
InterpretText(text) == lines = <<>> /\ Interpret(text)

NextParse ==
    \/ \E text \in Texts : InterpretText(text)
    \/ Step

SpecParse == Init /\ [][NextParse]_vars
(***************************************************************************)
(* Sessions that invoke properties: methods, fields that hold each kind of *)
(* callable, and receivers that are not instances.  Identifiers as in the  *)
(* class sessions, and c = <<99>>, k = <<107>>, z = <<122>>.              *)
(***************************************************************************)
\* class F { m() { return 1; } }  var f = F();  fun h(a) { return a; }
\* f.c = clock; f.k = F; f.b = f.m; f.h = h;
\* print f.m(); print f.c(); f.k(); print f.b(); print f.h(5); f.h();
InvokesFields ==
    << ClassDecl(<<70>>, <<>>, << Method(<<109>>, <<>>, << ReturnStmt(Num(1)) >>) >>),
       VarDecl(<<102>>, Call(Var(<<70>>), <<>>)),
       FunDecl(<<104>>, << <<97>> >>, << ReturnStmt(Var(<<97>>)) >>),
       ExprStmt(Set(Var(<<102>>), <<99>>, Var(Bytes("clock")))),
       ExprStmt(Set(Var(<<102>>), <<107>>, Var(<<70>>))),
       ExprStmt(Set(Var(<<102>>), <<98>>, Get(Var(<<102>>), <<109>>))),
       ExprStmt(Set(Var(<<102>>), <<104>>, Var(<<104>>))),
       PrintStmt(Invoke(Var(<<102>>), <<109>>, <<>>)),
       PrintStmt(Invoke(Var(<<102>>), <<99>>, <<>>)),
       ExprStmt(Invoke(Var(<<102>>), <<107>>, <<>>)),
       PrintStmt(Invoke(Var(<<102>>), <<98>>, <<>>)),
       PrintStmt(Invoke(Var(<<102>>), <<104>>, << Num(5) >>)),
       ExprStmt(Invoke(Var(<<102>>), <<104>>, <<>>)) >>

\* var n = 1; n.m(2);
InvokesNumber ==
    << VarDecl(<<110>>, Num(1)),
       ExprStmt(Invoke(Var(<<110>>), <<109>>, << Num(2) >>)) >>

\* class E {}  var a = E(); a.f = 1; a.f(); 
InvokesNonCallable ==
    << ClassDecl(<<69>>, <<>>, <<>>),
       VarDecl(<<97>>, Call(Var(<<69>>), <<>>)),
       ExprStmt(Set(Var(<<97>>), <<102>>, Num(1))),
       ExprStmt(Invoke(Var(<<97>>), <<102>>, <<>>)) >>

\* class E {}  E().z(1);
InvokesUndefined ==
    << ClassDecl(<<69>>, <<>>, <<>>),
       ExprStmt(Invoke(Call(Var(<<69>>), <<>>), <<122>>, << Num(1) >>)) >>

\* fun h(a) { print a; }  h();
CallsWithFewer ==
    << FunDecl(<<104>>, << <<97>> >>, << PrintStmt(Var(<<97>>)) >>),
       ExprStmt(Call(Var(<<104>>), <<>>)) >>

\* fun g() { print 1; }  g(2);
CallsWithMore ==
    << FunDecl(<<103>>, <<>>, << PrintStmt(Num(1)) >>),
       ExprStmt(Call(Var(<<103>>), << Num(2) >>)) >>

\* print clock(1);
CallsNativeWithMore ==
    << PrintStmt(Call(Var(Bytes("clock")), << Num(1) >>)) >>

\* fun g() { return 1 + nil; }  fun f() { return g(); }  print f();
FailsTwoCallsDeep ==
    << FunDecl(<<103>>, <<>>, << ReturnStmt(Add(Num(1), Literal("nil"))) >>),
       FunDecl(<<102>>, <<>>, << ReturnStmt(Call(Var(<<103>>), <<>>)) >>),
       PrintStmt(Call(Var(<<102>>), <<>>)) >>

CallPrograms == {CallsWithFewer, CallsWithMore, CallsNativeWithMore, FailsTwoCallsDeep}

InvokePrograms == {InvokesFields, InvokesNumber, InvokesNonCallable, InvokesUndefined}

NextInvoke ==
    \/ \E line \in InvokePrograms \cup CallPrograms : Interpret(line)
    \/ Step

SpecInvoke == Init /\ [][NextInvoke]_vars

(***************************************************************************)
(* Sessions that print  lhs and p()  or  lhs or p():  p prints 7 and       *)
(* returns a value, so that running the right operand shows.  p = <<112>>. *)
(***************************************************************************)
\* the left operands: nil, false, true, 0, 1, ""
Lefts == {Literal("nil"), Literal("false"), Literal("true"), Num(0), Num(1), Str(<<>>)}

\* fun p() { print 7; return 8; }  print lhs and p();
PrintsAnd(lhs) ==
    << FunDecl(<<112>>, <<>>, << PrintStmt(Num(7)), ReturnStmt(Num(8)) >>),
       PrintStmt(And(lhs, Call(Var(<<112>>), <<>>))) >>

\* fun p() { print 7; return nil; }  print lhs or p();
PrintsOr(lhs) ==
    << FunDecl(<<112>>, <<>>, << PrintStmt(Num(7)), ReturnStmt(Literal("nil")) >>),
       PrintStmt(Or(lhs, Call(Var(<<112>>), <<>>))) >>

LogicPrograms == {PrintsAnd(lhs) : lhs \in Lefts} \cup {PrintsOr(lhs) : lhs \in Lefts}

NextLogic ==
    \/ \E line \in LogicPrograms : Interpret(line)
    \/ Step

SpecLogic == Init /\ [][NextLogic]_vars

(***************************************************************************)
(* main.c main, from its first line: the process is started with argc      *)
(* arguments (the program's name counted), runs the REPL, a script file or *)
(* neither, and returns exit_code.                                         *)
(***************************************************************************)
MaxArgc == 4
    \* argc is 1..MaxArgc

\* what a script file may hold
Files == Programs \cup { << PrintKw, Semicolon >>,                      \* print ;
                         << PrintKw, One, Plus, Two, Semicolon >> }     \* print 1 + 2;

\* the process has been started: vm_init() and exit_code = 0
InitMain ==
    /\ vm = Run(BlankVm(FALSE, FALSE), [name |-> "vm_init"])
    /\ pc = "main"
    /\ lines = <<>>
    /\ status = <<>>
    /\ ref = NoRef
    /\ abs = <<>>
    /\ tableOp = NoTable
    /\ main \in [argc : 1..MaxArgc, exit_code : {0}]

\* main.c main: the choice between repl(), run_file(argv[1]) and the usage
\* message, after which it frees the VM and returns
Main ==
    /\ pc = "main"
    /\ IF 1 = main.argc THEN pc' = "repl" /\ vm' = vm
       ELSE IF main.argc = 2 THEN pc' = "file" /\ vm' = vm
       ELSE /\ pc' = "exit"
            /\ vm' = Run([vm EXCEPT !.err = Append(@, <<"Usage: clox [path]\n", <<>> >>)],
                         [name |-> "vm_free"])
    /\ UNCHANGED <<lines, status, ref, abs, tableOp, main>>

\* main.c run_file: the file is read and handed to vm_interpret; a file that
\* does not compile ends the process with 65
RunFile(source) ==
    /\ pc = "file"
    /\ LET Compiled(a) ==
               IF a.s.exited
               THEN /\ vm' = [vm EXCEPT !.exited = TRUE]
                    /\ pc' = "exit"
                    /\ UNCHANGED <<status, main>>
               ELSE /\ vm' = a.s
                    /\ pc' = IF a.r = NULL THEN "exit" ELSE "run"
                    /\ status' = IF a.r = NULL
                                 THEN Append(status, "INTERPRET_COMPILE_ERROR")
                                 ELSE status
                    /\ main' = IF a.r = NULL
                               THEN [main EXCEPT !.exit_code =
                                        run_file_result("INTERPRET_COMPILE_ERROR")]
                               ELSE main
       IN Compiled(Run(vm, [name |-> "run_file", source |-> source]))
    /\ lines' = Append(lines, source)
    /\ UNCHANGED <<ref, abs, tableOp>>

\* main.c repl: fgets meets the end of stdin, and main frees the VM and
\* returns
ReplEnds ==
    /\ pc = "repl"
    /\ pc' = "exit"
    /\ vm' = Run(vm, [name |-> "vm_free"])
    /\ UNCHANGED <<lines, status, ref, abs, tableOp, main>>

NextMain ==
    \/ Main
    \/ \E source \in Files : RunFile(source)
    \/ \E line \in Programs : Interpret(line)
    \/ ReplEnds
    \/ Step

SpecMain == InitMain /\ [][NextMain]_vars

(***************************************************************************)
(* The compiler while it works through a source: blocks and functions are  *)
(* opened, locals declared and names read, one parse at a time.            *)
(* a = <<97>>, b = <<98>>, f = <<102>>.                                    *)
(***************************************************************************)
MaxCompilers == 3
    \* functions being compiled at once, the script counted
MaxLocals == 3
    \* locals of a function, slot 0 counted
MaxCode == 4
    \* bytes of a function's chunk after which nothing more is parsed in it

ResolveNames == {<<97>>, <<98>>}

\* compile has made the script's compiler
InitResolve ==
    /\ vm = Run(Run(BlankVm(FALSE, FALSE), [name |-> "vm_init"]),
                [name |-> "compiler_init", fun_kind |-> "script", ident |-> <<>>])
    /\ pc = "compile"
    /\ lines = <<>>
    /\ status = <<>>
    /\ ref = NoRef
    /\ abs = <<>>
    /\ tableOp = NoTable
    /\ main = [argc |-> 1, exit_code |-> 0]

\* more may be parsed in the current function
Parses ==
    /\ pc = "compile"
    /\ Len(vm.heap[Cur(vm).pfun].chunk.code) < MaxCode

\* {  (compiler.c statement_handler, TOK_LEFT_BRACE: begin_scope)
OpenBlock ==
    /\ Parses
    /\ Cur(vm).scope_depth = 0
    /\ vm' = begin_scope(vm)
    /\ UNCHANGED <<pc, lines, status, ref, abs, tableOp, main>>

\* var name;  in a block or a function body
DeclareLocal(name) ==
    /\ Parses
    /\ Cur(vm).scope_depth > 0
    /\ Len(Cur(vm).locals) < MaxLocals
    /\ \A i \in 1..Len(Cur(vm).locals) : Cur(vm).locals[i].name # name
    /\ vm' = Run(vm, [name |-> "declaration_handler", d |-> VarDecl(name, NoExpr)])
    /\ UNCHANGED <<pc, lines, status, ref, abs, tableOp, main>>

\* fun f() {  the function is declared and its compiler becomes current
OpenFunction ==
    /\ Parses
    /\ Len(vm.compilers) < MaxCompilers
    /\ Len(Cur(vm).locals) < MaxLocals
    /\ vm' = Run(vm, [name |-> "fun_decl_begin", ident |-> <<102>>])
    /\ UNCHANGED <<pc, lines, status, ref, abs, tableOp, main>>

\* name;  the name is read (named_variable resolves it and emits the read)
ReadName(name) ==
    /\ Parses
    /\ vm' = Run(Run(vm, [name |-> "named_variable", ident |-> name, rhs |-> NoExpr]),
                 [name |-> "chunk_write", pfun |-> Cur(vm).pfun, byte |-> Op("OP_POP"),
                  line |-> 1])
    /\ UNCHANGED <<pc, lines, status, ref, abs, tableOp, main>>

NextResolve ==
    \/ OpenBlock
    \/ \E name \in ResolveNames : DeclareLocal(name)
    \/ OpenFunction
    \/ \E name \in ResolveNames : ReadName(name)

SpecResolve == InitResolve /\ [][NextResolve]_vars

(***************************************************************************)
(* Programs whose compiled code holds OP_INHERIT, OP_SUPER_INVOKE and      *)
(* OP_GET_SUPER.                                                           *)
(***************************************************************************)
\* class A { m() { return 1; } }
\* class B < A { m() { return super.m(); } }
\* print B().m();
CallsSuper ==
    << ClassDecl(<<65>>, <<>>, << Method(<<109>>, <<>>, << ReturnStmt(Num(1)) >>) >>),
       ClassDecl(<<66>>, <<65>>,
                 << Method(<<109>>, <<>>, << ReturnStmt(SuperInvoke(<<109>>, <<>>)) >>) >>),
       PrintStmt(Invoke(Call(Var(<<66>>), <<>>), <<109>>, <<>>)) >>

\* class A { m() { return 1; } }
\* class B < A { n() { return super.m; } }
\* print B().n();
GetsSuper ==
    << ClassDecl(<<65>>, <<>>, << Method(<<109>>, <<>>, << ReturnStmt(Num(1)) >>) >>),
       ClassDecl(<<66>>, <<65>>,
                 << Method(<<110>>, <<>>, << ReturnStmt(Super(<<109>>)) >>) >>),
       PrintStmt(Invoke(Call(Var(<<66>>), <<>>), <<110>>, <<>>)) >>

SuperPrograms == {CallsSuper, GetsSuper, Inherits, NoInit, Shadows}

NextSuper ==
    \/ \E line \in SuperPrograms : Interpret(line)
    \/ Step

SpecSuper == Init /\ [][NextSuper]_vars
(***************************************************************************)
(* A recursion that fills the value stack: every frame of f holds the      *)
(* callee and its 255 arguments, and pushes as many for the next call.     *)
(***************************************************************************)
\* the most arguments a call can have (compiler.c argument_list and function)
MaxArgs == 255

\* the k-th parameter: two letters of a..p
ParamName(k) == <<97 + (k \div 16), 97 + (k % 16)>>

\* fun f(aa, ab, ..., pp) { f(nil, nil, ..., nil); }  f(nil, nil, ..., nil);
FillsTheStack ==
    << FunDecl(<<102>>, [k \in 1..MaxArgs |-> ParamName(k)],
               << ExprStmt(Call(Var(<<102>>), [k \in 1..MaxArgs |-> Literal("nil")])) >>),
       ExprStmt(Call(Var(<<102>>), [k \in 1..MaxArgs |-> Literal("nil")])) >>

\* the one line of the session
InterpretDeep ==
    /\ lines = <<>>
    /\ Interpret(FillsTheStack)

NextDeep ==
    \/ InterpretDeep
    \/ Step

SpecDeep == Init /\ [][NextDeep]_vars
(***************************************************************************)
(* Sessions in which a runtime error resets the VM while upvalues are open.*)
(***************************************************************************)
\* var g = 0;
\* fun o() { var x = 1; fun i() { return x; } g = i; return 1 + nil; }
\* o();
FailsWhileOpen ==
    << VarDecl(<<103>>, Num(0)),
       FunDecl(<<111>>, <<>>,
               << VarDecl(<<120>>, Num(1)),
                  FunDecl(<<105>>, <<>>, << ReturnStmt(Var(<<120>>)) >>),
                  ExprStmt(Assign(<<103>>, Var(<<105>>))),
                  ReturnStmt(Add(Num(1), Literal("nil"))) >>),
       ExprStmt(Call(Var(<<111>>), <<>>)) >>

\* print g();
CallsTheClosure ==
    << PrintStmt(Call(Var(<<103>>), <<>>)) >>

\* fun k(a, b) { fun s() { return a + b; } return s; }
\* var s = k(1, 2); print s();
TwoCaptured ==
    << FunDecl(<<107>>, << <<97>>, <<98>> >>,
               << FunDecl(<<115>>, <<>>, << ReturnStmt(Add(Var(<<97>>), Var(<<98>>))) >>),
                  ReturnStmt(Var(<<115>>)) >>),
       VarDecl(<<115>>, Call(Var(<<107>>), << Num(1), Num(2) >>)),
       PrintStmt(Call(Var(<<115>>), <<>>)) >>

UpvaluePrograms == {FailsWhileOpen, CallsTheClosure, ThreeSlots, TwoCaptured}

NextUpvalues ==
    \/ \E line \in UpvaluePrograms : Interpret(line)
    \/ Step

SpecUpvalues == Init /\ [][NextUpvalues]_vars
(***************************************************************************)
(* Lines that are one block: the block's code is the script's chunk up to  *)
(* the OP_NIL OP_RETURN that end_compiler adds.                            *)
(***************************************************************************)
\* { var a = 1; var b = 2; print a + b; }
BlockOfLocals ==
    << Block(<< VarDecl(<<97>>, Num(1)),
                VarDecl(<<98>>, Num(2)),
                PrintStmt(Add(Var(<<97>>), Var(<<98>>))) >>) >>

\* { var a = 1; { var b = 2; fun f() { return b; } print f(); } print a; }
BlockInBlock ==
    << Block(<< VarDecl(<<97>>, Num(1)),
                Block(<< VarDecl(<<98>>, Num(2)),
                         FunDecl(<<102>>, <<>>, << ReturnStmt(Var(<<98>>)) >>),
                         PrintStmt(Call(Var(<<102>>), <<>>)) >>),
                PrintStmt(Var(<<97>>)) >>) >>

\* { var a = 1; fun g() { return a; } var c = 3; }
BlockWithCaptured ==
    << Block(<< VarDecl(<<97>>, Num(1)),
                FunDecl(<<103>>, <<>>, << ReturnStmt(Var(<<97>>)) >>),
                VarDecl(<<99>>, Num(3)) >>) >>

\* { class A {} class B < A {} }
BlockWithSubclass ==
    << Block(<< ClassDecl(<<65>>, <<>>, <<>>),
                ClassDecl(<<66>>, <<65>>, <<>>) >>) >>

BlockPrograms == {BlockOfLocals, BlockInBlock, BlockWithCaptured, BlockWithSubclass}

NextBlocks ==
    \/ \E line \in BlockPrograms : Interpret(line)
    \/ Step

SpecBlocks == Init /\ [][NextBlocks]_vars
(***************************************************************************)
(* Lines with if, while, and, or: every jump the compiler emits is run.    *)
(* a = <<97>>, b = <<98>>.                                                 *)
(***************************************************************************)
\* the conditions: nil, false, true, 0, 1
Conditions == {Literal("nil"), Literal("false"), Literal("true"), Num(0), Num(1)}

\* if (cond) print 1; else print 2;  print 3;
IfElse(cond) ==
    << If(cond, PrintStmt(Num(1)), PrintStmt(Num(2))), PrintStmt(Num(3)) >>

\* if (cond) print 1;  print 3;
IfOnly(cond) ==
    << If(cond, PrintStmt(Num(1)), NoExpr), PrintStmt(Num(3)) >>

\* var a = 1; var b = true; while (b) { print a; b = a; a = nil; }  print 3;
\* the body runs twice
LoopsTwice ==
    << VarDecl(<<97>>, Num(1)),
       VarDecl(<<98>>, Literal("true")),
       While(Var(<<98>>), Block(<< PrintStmt(Var(<<97>>)),
                                   ExprStmt(Assign(<<98>>, Var(<<97>>))),
                                   ExprStmt(Assign(<<97>>, Literal("nil"))) >>)),
       PrintStmt(Num(3)) >>

\* { var b = true; while (b and 1) { if (b) b = false; else print 2; } }
LoopWithIf ==
    << Block(<< VarDecl(<<98>>, Literal("true")),
                While(And(Var(<<98>>), Num(1)),
                      Block(<< If(Var(<<98>>),
                                  ExprStmt(Assign(<<98>>, Literal("false"))),
                                  PrintStmt(Num(2))) >>)) >>) >>

\* 1; nil; nil; ... nil;  a body of 3 + 2 * pairs bytes
LongBody(pairs) ==
    Block(<<ExprStmt(Num(1))>> \o [i \in 1..pairs |-> ExprStmt(Literal("nil"))])

\* the bytes between the operand of the OP_JUMP_IF_FALSE of  if (c) body  and
\* the else branch, other than the body: OP_POP and the OP_JUMP with its operand
IfOverhead == 4

\* the bytes between loop_start and the end of the operand of OP_LOOP, other
\* than the body, in  while (nil) body:  OP_NIL, OP_JUMP_IF_FALSE with its
\* operand, OP_POP, OP_LOOP with its operand
WhileOverhead == 8

\* if (nil) { 1; nil; ... }  print 3;  the jump over the body is U16_MAX long
IfAtLimit ==
    << If(Literal("nil"), LongBody((U16_MAX - IfOverhead - 3) \div 2), NoExpr),
       PrintStmt(Num(3)) >>

\* the same with one more  nil;  the jump is U16_MAX + 2 long
IfOverLimit ==
    << If(Literal("nil"), LongBody((U16_MAX - IfOverhead - 3) \div 2 + 1), NoExpr),
       PrintStmt(Num(3)) >>

\* while (nil) { 1; nil; ... }  the loop is U16_MAX + 2 long
WhileOverLimit ==
    << While(Literal("nil"), LongBody((U16_MAX - WhileOverhead - 3) \div 2 + 1)) >>

JumpPrograms ==
    {IfElse(cond) : cond \in Conditions} \cup {IfOnly(cond) : cond \in Conditions}
        \cup {LoopsTwice, LoopWithIf}

FarJumpPrograms == {IfAtLimit, IfOverLimit, WhileOverLimit}

\* a long line is the first line of its session
InterpretLong(line) ==
    /\ lines = <<>>
    /\ Interpret(line)

NextJumps ==
    \/ \E line \in JumpPrograms : Interpret(line)
    \/ \E line \in FarJumpPrograms : InterpretLong(line)
    \/ Step

SpecJumps == Init /\ [][NextJumps]_vars

(***************************************************************************)
(* The chunk of a function driven by chunk_write calls with any lines,     *)
(* next to the lines that were passed (abs.written) and the last answer of *)
(* chunk_get_line (abs.asked, abs.line).                                   *)
(***************************************************************************)
MaxWrites == 10
    \* chunk_write calls: past the first growth of the code (8 bytes) and,
    \* with a new line each time, of the line map (8 pairs)

SourceLines == {1, 2}

\* compile has made the script's compiler; nothing is written yet
InitLines ==
    /\ vm = Run(Run(BlankVm(FALSE, FALSE), [name |-> "vm_init"]),
                [name |-> "compiler_init", fun_kind |-> "script", ident |-> <<>>])
    /\ pc = "chunk"
    /\ lines = <<>>
    /\ status = <<>>
    /\ ref = NoRef
    /\ abs = [written |-> <<>>, asked |-> -1, line |-> -1]
    /\ tableOp = NoTable
    /\ main = [argc |-> 1, exit_code |-> 0]

\* chunk_write(chunk, byte, line)
ChunkWrite(byte, line) ==
    /\ pc = "chunk"
    /\ Len(abs.written) < MaxWrites
    /\ vm' = Run(vm, [name |-> "chunk_write", pfun |-> Cur(vm).pfun, byte |-> byte,
                      line |-> line])
    /\ abs' = [abs EXCEPT !.written = Append(@, line)]
    /\ UNCHANGED <<pc, lines, status, ref, tableOp, main>>

\* chunk_get_line(chunk, code_index) for a byte of the chunk
ChunkGetLine(code_index) ==
    /\ pc = "chunk"
    /\ code_index < Len(vm.heap[Cur(vm).pfun].chunk.code)
    /\ abs' = [abs EXCEPT !.asked = code_index,
                          !.line = chunk_get_line(vm.heap[Cur(vm).pfun].chunk, code_index)]
    /\ UNCHANGED <<vm, pc, lines, status, ref, tableOp, main>>

NextLines ==
    \/ \E line \in SourceLines : ChunkWrite(Op("OP_NIL"), line)
    \/ \E code_index \in 0..(MaxWrites - 1) : ChunkGetLine(code_index)

SpecLines == InitLines /\ [][NextLines]_vars

(***************************************************************************)
(* Lines whose literals repeat.  s = <<115>>, f = <<102>>.                 *)
(***************************************************************************)
\* print "s"; print "s";
TwoStrings == << PrintStmt(Str(<<115>>)), PrintStmt(Str(<<115>>)) >>

\* print 1; print 1;
TwoNumbers == << PrintStmt(Num(1)), PrintStmt(Num(1)) >>

\* print "s" + "s";
StringPlusItself == << PrintStmt(Add(Str(<<115>>), Str(<<115>>))) >>

\* fun f() { print "s"; }  print "s"; f();
StringInTwoFunctions ==
    << FunDecl(<<102>>, <<>>, << PrintStmt(Str(<<115>>)) >>),
       PrintStmt(Str(<<115>>)),
       ExprStmt(Call(Var(<<102>>), <<>>)) >>

LiteralPrograms == {TwoStrings, TwoNumbers, StringPlusItself, StringInTwoFunctions}

NextLiterals ==
    \/ \E line \in LiteralPrograms : Interpret(line)
    \/ Step

SpecLiterals == Init /\ [][NextLiterals]_vars

(***************************************************************************)
(* The build as shipped collects once bytes_allocated passes next_gc,      *)
(* 1 MiB at first.  A line with more than 32768 constants gets there: the  *)
(* constants of its script grow to 65536 Values of 16 bytes.  The line     *)
(* opens with a top-level return, a compile error, so that it is compiled  *)
(* and not run.                                                            *)
(***************************************************************************)
ManyConstants == 32769

\* return; 1; 1; ... 1;
ManyNumbers ==
    <<ReturnStmt(NoExpr)>> \o [i \in 1..ManyConstants |-> ExprStmt(Num(1))]

\* print "s" + "t";
PrintsConcatenated == << PrintStmt(Add(Str(<<115>>), Str(<<116>>))) >>

ThresholdPrograms == {TwoStrings, TwoNumbers, StringPlusItself, StringInTwoFunctions,
                      PrintsConcatenated, LoopsTwice}

\* the long line is the first of its session, or follows a line that left
\* garbage behind
InterpretMany ==
    /\ lines \in {<<>>, <<PrintsConcatenated>>}
    /\ Interpret(ManyNumbers)

NextThreshold ==
    \/ \E line \in ThresholdPrograms : Interpret(line)
    \/ InterpretMany
    \/ Step

SpecThreshold == Init /\ [][NextThreshold]_vars


(***************************************************************************)
(* Lines typed as texts with up to two class declarations: every text of a *)
(* few pieces, most of them malformed, and a few longer ones.              *)
(***************************************************************************)
ClassKw == Token("TOK_CLASS", "class")
NameA == Token("TOK_IDENTIFIER", "A")
NameM == Token("TOK_IDENTIFIER", "m")
LeftParen == Token("TOK_LEFT_PAREN", "(")
RightParen == Token("TOK_RIGHT_PAREN", ")")

MaxPieces == 3

\* pieces of a text without `class`
Pieces ==
    { << NameM, LeftParen, RightParen, LeftBrace >>,            \* m ( ) {
      << RightBrace >>,                                         \* }
      << PrintKw, One, Semicolon >>,                            \* print 1 ;
      << LeftParen, NameA, RightParen >>,                       \* ( A )
      << RightParen >>,                                         \* )
      << NameA >>,                                              \* A
      << Unexpected >> }                                        \* @

\* the texts of up to n pieces
PieceTexts(n) == UNION { { Join(pieces) : pieces \in [1..k -> Pieces] } : k \in 0..n }

\* how a class declaration starts, with or without its name and '{'
ClassStarts == { << ClassKw, NameA, LeftBrace >>, << ClassKw >> }

\* texts without a class declaration
NoClassTexts == PieceTexts(MaxPieces) \ {<<>>}

\* texts with one class declaration
OneClassTexts ==
    { before \o class \o after :
          before \in PieceTexts(1), class \in ClassStarts, after \in PieceTexts(MaxPieces - 1) }

\* texts with two class declarations, the second one after the body of the
\* first
TwoClassTexts ==
    { first \o << RightBrace >> \o second \o after :
          first \in ClassStarts, second \in ClassStarts,
          after \in PieceTexts(MaxPieces - 1) }

\* class A { m ( ) { print 1 ; } }
ClassWithMethod ==
    << ClassKw, NameA, LeftBrace, NameM, LeftParen, RightParen, LeftBrace,
       PrintKw, One, Semicolon, RightBrace, RightBrace >>

\* class A { m ( ) { class A { m ( ) { } } } }
ClassInMethod ==
    << ClassKw, NameA, LeftBrace, NameM, LeftParen, RightParen, LeftBrace,
       ClassKw, NameA, LeftBrace, NameM, LeftParen, RightParen, LeftBrace,
       RightBrace, RightBrace, RightBrace, RightBrace >>

\* class A { m ( A ) { print 1 ; } } A ( ) ;
ClassCalled ==
    << ClassKw, NameA, LeftBrace, NameM, LeftParen, NameA, RightParen, LeftBrace,
       PrintKw, One, Semicolon, RightBrace, RightBrace,
       NameA, LeftParen, RightParen, Semicolon >>

\* class A { m ( ) { class A { m (
ClassInMethodCut == SubSeq(ClassInMethod, 1, 13)

ClassTexts ==
    NoClassTexts \cup OneClassTexts \cup TwoClassTexts
        \cup {ClassWithMethod, ClassInMethod, ClassCalled, ClassInMethodCut}

NextClassTexts ==
    \/ \E text \in ClassTexts : InterpretText(text)
    \/ Step

SpecClassTexts == Init /\ [][NextClassTexts]_vars

(***************************************************************************)
(* Lines that read lines: readln() with stdin at its end hands the line    *)
(* buffer it obtained to string_create.                                    *)
(***************************************************************************)
\* readln();
ReadsLine == << ExprStmt(Call(Var(Bytes("readln")), <<>>)) >>

\* print readln();
PrintsLine == << PrintStmt(Call(Var(Bytes("readln")), <<>>)) >>

\* print readln() + readln();
PrintsTwoLines ==
    << PrintStmt(Add(Call(Var(Bytes("readln")), <<>>), Call(Var(Bytes("readln")), <<>>))) >>

ReadlnPrograms == {ReadsLine, PrintsLine, PrintsTwoLines, TwoStrings, StringPlusItself}

NextReadln ==
    \/ \E line \in ReadlnPrograms : Interpret(line)
    \/ Step

SpecReadln == Init /\ [][NextReadln]_vars
(***************************************************************************)
(* SpecTable: the globals table of a freshly initialised VM driven by      *)
(* arbitrary table_set / table_delete / table_get calls, next to the map   *)
(* it has to implement.                                                    *)
(***************************************************************************)
TableKeys == {<<97>>, <<105>>, <<98>>, <<120>>}
    \* "a", "i" (same bucket mod 8), "b" (the bucket of "clock"), "x" (of "readln")
TableValues == {NUMBER_VAL(1), NUMBER_VAL(2)}
Absent == [kind |-> "absent", as |-> 0]

\* intern the key strings, as the compiler does for every identifier
RECURSIVE InternAll(_, _)
InternAll(s, keys) ==
    IF keys = {} THEN s
    ELSE LET k == CHOOSE x \in keys : \A y \in keys : x[1] <= y[1]
         IN InternAll(Run(s, [name |-> "string_copy", chars |-> k]).s, keys \ {k})

TableVm == InternAll(Run(BlankVm(FALSE, FALSE), [name |-> "vm_init"]), TableKeys)

KeyObj(s, k) == table_find_string(s.heap, s.strings, k, string_hash(k))

InitTable ==
    /\ vm = TableVm
    /\ pc = "table"
    /\ lines = <<>>
    /\ status = <<>>
    /\ ref = NoRef
    /\ abs = [k \in TableKeys |-> Absent]
    /\ tableOp = NoTable
    /\ main = [argc |-> 1, exit_code |-> 0]

TableSet(k, v) ==
    /\ pc = "table" /\ tableOp.n < MaxOps
    /\ LET t0 == vm.globals
           Done(a, key) ==
               LET slot == find_entry(a.s.heap, a.s.globals.entries,
                                      a.s.globals.capacity, key)
                   was == IF TableMustGrow(t0) THEN NIL_VAL ELSE t0.entries[slot + 1].value
               IN /\ vm' = a.s
                  /\ abs' = [abs EXCEPT ![k] = v]
                  /\ tableOp' = [op |-> "set", key |-> k, r |-> a.r,
                                 expect |-> (abs[k] = Absent),
                                 n |-> tableOp.n + 1,
                                 grew |-> tableOp.grew \/ a.s.globals.capacity > t0.capacity,
                                 reused |-> tableOp.reused
                                     \/ (~TableMustGrow(t0) /\ a.r /\ was = BOOL_VAL(TRUE))]
       IN Done(Run(vm, [name |-> "table_set", loc |-> GlobalsLoc, key |-> KeyObj(vm, k), value |-> v]),
               KeyObj(vm, k))
    /\ UNCHANGED <<pc, lines, status, ref, main>>

TableDelete(k) ==
    /\ pc = "table" /\ tableOp.n < MaxOps
    /\ LET Done(a) ==
               /\ vm' = [vm EXCEPT !.globals = a.t]
               /\ abs' = [abs EXCEPT ![k] = Absent]
               /\ tableOp' = [tableOp EXCEPT !.op = "delete", !.key = k, !.r = a.r,
                                             !.expect = (abs[k] # Absent), !.n = @ + 1]
       IN Done(table_delete(vm.heap, vm.globals, KeyObj(vm, k)))
    /\ UNCHANGED <<pc, lines, status, ref, main>>

TableGet(k) ==
    /\ pc = "table"
    /\ LET Done(a) ==
               tableOp' = [tableOp EXCEPT !.op = "get", !.key = k, !.r = a.r,
                                          !.expect = (abs[k] # Absent)]
       IN Done(table_get(vm.heap, vm.globals, KeyObj(vm, k)))
    /\ UNCHANGED <<vm, abs, pc, lines, status, ref, main>>

NextTable ==
    \/ \E k \in TableKeys, v \in TableValues : TableSet(k, v)
    \/ \E k \in TableKeys : TableDelete(k)
    \/ \E k \in TableKeys : TableGet(k)

SpecTable == InitTable /\ [][NextTable]_vars

\* C7: the hash table behaves as a map under any sequence of table_set and
\* table_delete (growth and tombstone reuse included): table_get(k) succeeds
\* iff k was set and not deleted since and then yields the value set last;
\* table_set returns true iff the key was absent; table_delete returns true
\* iff the key was present.
C7_TableIsMap ==
    pc = "table" =>
        /\ \A k \in TableKeys :
              LET Agrees(g) == g.r = (abs[k] # Absent) /\ (g.r => g.value = abs[k])
              IN Agrees(table_get(vm.heap, vm.globals, KeyObj(vm, k)))
        /\ tableOp.op # "none" => tableOp.r = tableOp.expect

C7_Witness ==
    /\ pc = "table" /\ tableOp.grew /\ tableOp.reused
    /\ tableOp.op = "get" /\ tableOp.r
    /\ vm.globals.count = 6

(***************************************************************************)
(* The collector's contract, examined in the build that collects at every  *)
(* growing allocation (SpecStress).                                        *)
(***************************************************************************)

\* C1: at the end of every collect_garbage, every object that was reachable
\* from a root along the trace edges when the collection began is still on the
\* heap list and has not been freed
C1_ReachableSurvives == vm.audit.lost = {}

\* C2: after every collection vm.init_string still refers to a live string
\* object (the cached `init` string is a root)
C2_InitStringIsRoot == ~vm.audit.init_dead

\* C3: no object under construction is freed by a collection: neither the
\* string string_allocate is inserting into the intern table nor the value
\* chunk_add_constant is appending to the constants array
C3_UnderConstructionSurvives == vm.audit.built_freed = {}

\* C5: after every collection every key of vm.strings is a live string and
\* every surviving string is still a key of vm.strings
C5_InternTableWeak == ~vm.audit.intern_bad

\* C6: no two live strings hold the same bytes, and what string_copy and
\* string_create hand back is a live string with the bytes asked for
C6_StringsInterned ==
    /\ \A a, b \in LiveStrings(vm) : vm.heap[a].chars = vm.heap[b].chars => a = b
    /\ ~vm.audit.copy_bad

IsPrefix(p, q) == Len(p) <= Len(q) /\ SubSeq(q, 1, Len(p)) = p

\* C4: a session prints the same values and returns the same results whether
\* collections run at every growing allocation or only past next_gc: what the
\* stress build has printed and returned so far is what the shipped build
\* printed and returned, and when the session is over the two are equal
C4_SameInBothModes ==
    ref.phase = 1 =>
        /\ IsPrefix(vm.out, ref.out)
        /\ IsPrefix(status, ref.status)
        /\ (pc # "run" /\ Len(lines) = Len(ref.session)) =>
                (vm.out = ref.out /\ status = ref.status)

(***************************************************************************)
(* The interpreter's contract, examined in the shipped build (Spec).       *)
(***************************************************************************)
\* vm.c vm_run: the frame on top, the instruction its ip points at, and the
\* name that instruction's one-byte operand selects
CurrentFrame(s) == s.frames[Len(s.frames)]
CurrentChunk(s) == s.heap[s.heap[CurrentFrame(s).pclosure].pfun].chunk
CurrentInstruction(s) == OpName(CurrentChunk(s).code[CurrentFrame(s).ip + 1])
CurrentName(s) ==
    CurrentChunk(s).constants.values[CurrentChunk(s).code[CurrentFrame(s).ip + 2] + 1].as

\* the globals as the map they stand for
GlobalsMap(s) ==
    {<<e.key, e.value>> : e \in {x \in SeqRange(s.globals.entries) : x.key # NULL}}

RuntimeError == "INTERPRETER_RUNTUME_ERROR"

\* the next instruction assigns to a global that is not defined
SetsUndefinedGlobal ==
    /\ pc = "run"
    /\ CurrentInstruction(vm) = "OP_SET_GLOBAL"
    /\ ~table_get(vm.heap, vm.globals, CurrentName(vm)).r

\* the next instruction reads a global that is not defined
GetsUndefinedGlobal ==
    /\ pc = "run"
    /\ CurrentInstruction(vm) = "OP_GET_GLOBAL"
    /\ ~table_get(vm.heap, vm.globals, CurrentName(vm)).r

\* C8: assigning to an undefined global is a runtime error that does not
\* create the global: after the failed SetGlobal the name is still undefined
\* and every other global has the value it had; and reading an undefined
\* global (so also one whose assignment failed) is a runtime error
C8_FailedAssignCreatesNothing ==
    [][/\ SetsUndefinedGlobal =>
            /\ pc' = "repl"
            /\ status' = Append(status, RuntimeError)
            /\ vm'.err = Append(vm.err, <<"Undefined variable '%s'.",
                                          vm.heap[CurrentName(vm)].chars>>)
            /\ ~table_get(vm'.heap, vm'.globals, CurrentName(vm)).r
            /\ GlobalsMap(vm') = GlobalsMap(vm)
       /\ GetsUndefinedGlobal =>
            /\ pc' = "repl"
            /\ status' = Append(status, RuntimeError)
            /\ GlobalsMap(vm') = GlobalsMap(vm)]_vars

\* var y = 2; x = 1;  has failed on x, and so has  print x;  after it, and y
\* is still 2
C8_Witness ==
    /\ pc = "repl"
    /\ Len(lines) = 2
    /\ lines[1] = << VarDecl(<<121>>, Num(2)), ExprStmt(Assign(<<120>>, Num(1))) >>
    /\ lines[2] = << PrintStmt(Var(<<120>>)) >>
    /\ status = <<RuntimeError, RuntimeError>>
    /\ vm.err = << <<"Undefined variable '%s'.", <<120>> >>,
                   <<"Undefined variable '%s'.", <<120>> >> >>
    /\ \E e \in GlobalsMap(vm) : vm.heap[e[1]].chars = <<121>> /\ e[2] = NUMBER_VAL(2)
    /\ \A e \in GlobalsMap(vm) : vm.heap[e[1]].chars # <<120>>

\* C9: whenever vm_interpret has returned, whatever its result, the value
\* stack is empty and frame_count is 0
C9_CleanAfterInterpret == pc = "repl" => (vm.stack = <<>> /\ vm.frames = <<>>)

\* the next instruction calls a closure, with the arguments it expects, while
\* FRAMES_MAX frames are active
CallsAtFramesMax ==
    /\ pc = "run"
    /\ CurrentInstruction(vm) = "OP_CALL"
    /\ Len(vm.frames) = FRAMES_MAX
    /\ is_obj_kind(vm.heap, vm_stack_peek(vm, CurrentChunk(vm).code[CurrentFrame(vm).ip + 2]),
                   "closure")

\* the line  fun r() { r(); } r();
Recursion ==
    << FunDecl(<<114>>, <<>>, << ExprStmt(Call(Var(<<114>>), <<>>)) >>),
       ExprStmt(Call(Var(<<114>>), <<>>)) >>

Ran(line) == pc = "repl" /\ lines = <<line>>

\* what OP_PRINT writes for the number n
Shown(n) == value_print(vm, NUMBER_VAL(n))

\* the stack slots that open upvalues point at, head of the list first
OpenSlots(s) == [i \in 1..Len(OpenUpvalues(s)) |-> s.heap[OpenUpvalues(s)[i]].location]

\* C11: a captured local is moved into its upvalue when its block ends, so no
\* open upvalue is left pointing at a slot at or above stack_top, and a
\* closure that outlives the block still reads and writes the variable: the
\* closure of BlockOne, nested one level below the block, prints 2 and 3, and
\* the closure of BlockTwo, nested two levels below, prints 1
C11_CapturedOutlivesBlock ==
    /\ \A i \in 1..Len(OpenSlots(vm)) : OpenSlots(vm)[i] <= Len(vm.stack)
    /\ Ran(BlockOne) => vm.out = <<Shown(2), Shown(3)>>
    /\ Ran(BlockTwo) => vm.out = <<Shown(1)>>

\* the upvalue objects, and the variable an upvalue stands for: the stack slot
\* while it is open, its own `closed` field after
Upvalues(s) == {a \in Addr : s.heap[a].kind = "upvalue"}
Cell(s, u) == IF s.heap[u].location = 0 THEN s.heap[u].closed
              ELSE StackAt(s, s.heap[u].location)

\* the one-byte operand of the next instruction
CurrentOperand(s) == CurrentChunk(s).code[CurrentFrame(s).ip + 2]

\* the next instruction assigns to the variable of upvalue u: through a
\* closure's upvalue, or in the declaring function through the local's slot
WritesTo(u) ==
    /\ pc = "run"
    /\ \/ /\ CurrentInstruction(vm) = "OP_SET_UPVALUE"
          /\ vm.heap[CurrentFrame(vm).pclosure].upvalues[CurrentOperand(vm) + 1] = u
       \/ /\ CurrentInstruction(vm) = "OP_SET_LOCAL"
          /\ vm.heap[u].location = CurrentFrame(vm).slots + CurrentOperand(vm) + 1

\* the next instruction reads the variable of upvalue u through a closure
ReadsFrom(u) ==
    /\ pc = "run"
    /\ CurrentInstruction(vm) = "OP_GET_UPVALUE"
    /\ vm.heap[CurrentFrame(vm).pclosure].upvalues[CurrentOperand(vm) + 1] = u

\* C12: a captured variable is one shared variable: its value changes only
\* when a closure's upvalue or the declaring function assigns to it, the
\* value assigned is then the variable's value, and a read through any
\* closure that captured it yields the variable's value, before and after it
\* is closed; so the counter closure prints 1, 2, 3, and the two closures of
\* Shared see each other's and the declaring function's writes (2, 5, 6)
C12_CapturedIsShared ==
    /\ [](/\ Ran(Counter) => vm.out = <<Shown(1), Shown(2), Shown(3)>>
          /\ Ran(Shared) => vm.out = <<Shown(2), Shown(5), Shown(6)>>)
    /\ [][\A u \in Upvalues(vm) :
            /\ WritesTo(u) => (pc' = "run" => Cell(vm', u) = vm_stack_peek(vm, 0))
            /\ ReadsFrom(u) => (pc' = "run" => vm'.stack = Append(vm.stack, Cell(vm, u)))
            /\ (~WritesTo(u) /\ u \in Upvalues(vm')) => Cell(vm', u) = Cell(vm, u)]_vars

\* C13: the open-upvalue list is sorted by strictly descending stack slot (so
\* no two open upvalues stand for the same slot), and capture_upvalue keeps it
\* so: asked for a slot that has an open upvalue it returns that one and
\* leaves the list alone, and otherwise it puts the new upvalue in at its
\* sorted position and changes nothing else of the list
C13_OpenUpvaluesSorted ==
    /\ [](\A i \in 1..Len(OpenSlots(vm)) - 1 : OpenSlots(vm)[i] > OpenSlots(vm)[i + 1])
    /\ [][(pc = "run" /\ CurrentInstruction(vm) = "OP_CLOSURE" /\ pc' = "run") =>
            LET before == OpenUpvalues(vm)
                after == OpenUpvalues(vm')
                closure == vm'.heap[vm_stack_peek(vm', 0).as]
            IN /\ \A u \in SeqRange(before) :
                     /\ u \in SeqRange(after)
                     /\ vm'.heap[u].location = vm.heap[u].location
               /\ \A u \in SeqRange(after) \ SeqRange(before) :
                     /\ vm.heap[u].kind = "none"
                     /\ u \in SeqRange(closure.upvalues)
                     /\ \A v \in SeqRange(before) :
                            vm.heap[v].location # vm'.heap[u].location]_vars

\* ThreeSlots has captured slot 3, then slot 1, then slot 2 in between, and
\* slot 1 a second time
C13_Witness ==
    /\ pc = "run"
    /\ lines = <<ThreeSlots>>
    /\ OpenSlots(vm) = <<4, 3, 2>>
    /\ Cardinality({a \in Addr : vm.heap[a].kind = "closure"}) = 4

\* the next instruction returns from a call to its caller
Returns == pc = "run" /\ CurrentInstruction(vm) = "OP_RETURN" /\ Len(vm.frames) > 1

\* the next instruction calls a closure, which gets a frame
CallsClosure ==
    /\ pc = "run"
    /\ CurrentInstruction(vm) = "OP_CALL"
    /\ pc' = "run"
    /\ Len(vm'.frames) = Len(vm.frames) + 1

\* C17: a completed call is stack-neutral for its caller.  The frame of a call
\* starts at the slot of the callee, below its arguments; on return the stack
\* is what it was below that slot, with exactly the return value on top, the
\* frame is gone and the caller's frames are as they were; every upvalue that
\* was open at or above the callee's slot base is closed and holds the value
\* of its slot, and the open upvalues below it are still open
C17_CallIsStackNeutral ==
    [][/\ CallsClosure =>
            /\ CurrentFrame(vm').slots = Len(vm.stack) - CurrentOperand(vm) - 1
            /\ vm'.stack = vm.stack
       /\ Returns =>
            LET base == CurrentFrame(vm).slots
            IN /\ pc' = "run"
               /\ vm'.stack = Append(SubSeq(vm.stack, 1, base), vm_stack_peek(vm, 0))
               /\ vm'.frames = SubSeq(vm.frames, 1, Len(vm.frames) - 1)
               /\ \A u \in SeqRange(OpenUpvalues(vm)) :
                     IF vm.heap[u].location >= base + 1
                     THEN /\ vm'.heap[u].location = 0
                          /\ vm'.heap[u].closed = StackAt(vm, vm.heap[u].location)
                          /\ u \notin SeqRange(OpenUpvalues(vm'))
                     ELSE /\ vm'.heap[u].location = vm.heap[u].location
                          /\ u \in SeqRange(OpenUpvalues(vm'))]_vars

\* the call a(1) of Adder has returned the closure b to the script: it has
\* taken the place of the callee and its argument above the script's slot 0,
\* and a's parameter n, 1, is closed
C17_Witness ==
    /\ pc = "run"
    /\ lines = <<Adder>>
    /\ Len(vm.frames) = 1
    /\ Len(vm.stack) = 2
    /\ is_obj_kind(vm.heap, vm.stack[2], "closure")
    /\ vm.open_upvalues = NULL
    /\ \E u \in Upvalues(vm) : vm.heap[u].location = 0 /\ vm.heap[u].closed = NUMBER_VAL(1)

(***************************************************************************)
(* Classes, instances and methods, examined in the shipped build           *)
(* (SpecClasses).                                                          *)
(***************************************************************************)
\* a table as the map it stands for: the characters of each key and its value
NameMap(s, table) ==
    {<<s.heap[e.key].chars, e.value>> :
        e \in {x \in SeqRange(table.entries) : x.key # NULL}}

\* whether the map has the name, and the value it gives it
Has(map, chars) == \E e \in map : e[1] = chars
ValueOf(map, chars) == (CHOOSE e \in map : e[1] = chars)[2]

\* the next instruction calls a class with CurrentOperand(vm) arguments
CallsClass ==
    /\ pc = "run"
    /\ CurrentInstruction(vm) = "OP_CALL"
    /\ CurrentOperand(vm) < Len(vm.stack)
    /\ is_obj_kind(vm.heap, vm_stack_peek(vm, CurrentOperand(vm)), "class")

\* the function of the frame on top is an initializer
InInitializer ==
    /\ vm.heap[vm.heap[CurrentFrame(vm).pclosure].pfun].name # NULL
    /\ vm.heap[vm.heap[vm.heap[CurrentFrame(vm).pclosure].pfun].name].chars = Bytes("init")

\* C18: calling a class puts a fresh instance of it, with no fields, in the
\* callee's slot.  If the class has `init`, that closure gets a frame whose
\* slot 0 is the instance, and when the initializer returns, by running off
\* its end or by a bare `return;`, the call's value is the instance.  If it
\* has no `init`, a call with no arguments pushes no frame and its value is
\* the instance, and a call with arguments is a runtime error.  (A call
\* during which malloc fails ends the process instead.)
C18_ClassCallMakesInstance ==
    [][/\ (CallsClass /\ pc' # "exit") =>
            LET argc == CurrentOperand(vm)
                at == Len(vm.stack) - argc
                cls == vm.stack[at].as
                methods == NameMap(vm, vm.heap[cls].methods)
                init == ValueOf(methods, Bytes("init")).as
            IN \E a \in Addr :
                  /\ vm.heap[a].kind = "none"
                  /\ vm'.heap[a].kind = "instance"
                  /\ vm'.heap[a].cls = cls
                  /\ NameMap(vm', vm'.heap[a].fields) = {}
                  /\ (Has(methods, Bytes("init")) /\ argc = vm.heap[vm.heap[init].pfun].arity) =>
                        /\ pc' = "run"
                        /\ vm'.stack = [vm.stack EXCEPT ![at] = OBJ_VAL(a)]
                        /\ Len(vm'.frames) = Len(vm.frames) + 1
                        /\ CurrentFrame(vm') = [pclosure |-> init, ip |-> 0, slots |-> at - 1]
                  /\ (~Has(methods, Bytes("init")) /\ argc = 0) =>
                        /\ pc' = "run"
                        /\ vm'.stack = [vm.stack EXCEPT ![at] = OBJ_VAL(a)]
                        /\ Len(vm'.frames) = Len(vm.frames)
                  /\ (~Has(methods, Bytes("init")) /\ argc # 0) =>
                        /\ pc' = "repl"
                        /\ status' = Append(status, RuntimeError)
                        /\ vm'.err = Append(vm.err, <<"Expected 0 arguments, but got %d.",
                                                      <<argc>> >>)
       /\ (Returns /\ InInitializer) =>
            LET base == CurrentFrame(vm).slots
            IN /\ is_obj_kind(vm.heap, vm.stack[base + 1], "instance")
               /\ vm'.stack = Append(SubSeq(vm.stack, 1, base), vm.stack[base + 1])]_vars

\* Q() of InitBareReturn has returned through `return;`: its value, above the
\* script's slot 0, is the instance, whose field v the initializer has set
C18_Witness ==
    /\ pc = "run"
    /\ lines = <<InitBareReturn>>
    /\ Len(vm.frames) = 1
    /\ Len(vm.stack) = 2
    /\ is_obj_kind(vm.heap, vm.stack[2], "instance")
    /\ NameMap(vm, vm.heap[vm.stack[2].as].fields) = {<< <<118>>, NUMBER_VAL(1) >>}

\* the next instruction reads a property of the instance on top of the stack
GetsProperty ==
    /\ pc = "run"
    /\ CurrentInstruction(vm) = "OP_GET_PROPERTY"
    /\ is_obj_kind(vm.heap, vm_stack_peek(vm, 0), "instance")

\* the argument count of the OP_INVOKE that is next, and its receiver
InvokeArgc == CurrentChunk(vm).code[CurrentFrame(vm).ip + 3]
InvokeReceiver == vm_stack_peek(vm, InvokeArgc)

\* the next instruction invokes a property of an instance
InvokesProperty ==
    /\ pc = "run"
    /\ CurrentInstruction(vm) = "OP_INVOKE"
    /\ InvokeArgc < Len(vm.stack)
    /\ is_obj_kind(vm.heap, InvokeReceiver, "instance")

\* the closure `value` can be called with argc arguments
Callable(value, argc) ==
    /\ is_obj_kind(vm.heap, value, "closure")
    /\ vm.heap[vm.heap[value.as].pfun].arity = argc
    /\ Len(vm.frames) < FRAMES_MAX

\* C20: fields shadow methods.  GetProperty of an instance that has a field of
\* that name yields the field's value, whatever methods its class has; only
\* when it has no such field does it yield the class's method, bound to the
\* instance.  Invoke likewise calls the field's value when the instance has
\* the field, and the class's method, with the instance in slot 0, when it
\* has not; the fields of other instances play no part
C20_FieldsShadowMethods ==
    [][/\ (GetsProperty /\ pc' # "exit") =>
            LET inst == vm_stack_peek(vm, 0).as
                name == vm.heap[CurrentName(vm)].chars
                fields == NameMap(vm, vm.heap[inst].fields)
                methods == NameMap(vm, vm.heap[vm.heap[inst].cls].methods)
                below == SubSeq(vm.stack, 1, Len(vm.stack) - 1)
            IN /\ Has(fields, name) =>
                    /\ pc' = "run"
                    /\ vm'.stack = Append(below, ValueOf(fields, name))
               /\ (~Has(fields, name) /\ Has(methods, name)) =>
                    /\ pc' = "run"
                    /\ SubSeq(vm'.stack, 1, Len(vm.stack) - 1) = below
                    /\ Len(vm'.stack) = Len(vm.stack)
                    /\ is_obj_kind(vm'.heap, vm_stack_peek(vm', 0), "bound_method")
                    /\ vm.heap[vm_stack_peek(vm', 0).as].kind = "none"
                    /\ vm'.heap[vm_stack_peek(vm', 0).as].receiver = OBJ_VAL(inst)
                    /\ vm'.heap[vm_stack_peek(vm', 0).as].method = ValueOf(methods, name).as
       /\ InvokesProperty =>
            LET inst == InvokeReceiver.as
                at == Len(vm.stack) - InvokeArgc
                name == vm.heap[CurrentName(vm)].chars
                fields == NameMap(vm, vm.heap[inst].fields)
                methods == NameMap(vm, vm.heap[vm.heap[inst].cls].methods)
            IN /\ (Has(fields, name) /\ Callable(ValueOf(fields, name), InvokeArgc)) =>
                    /\ pc' = "run"
                    /\ vm'.stack = [vm.stack EXCEPT ![at] = ValueOf(fields, name)]
                    /\ Len(vm'.frames) = Len(vm.frames) + 1
                    /\ CurrentFrame(vm') = [pclosure |-> ValueOf(fields, name).as,
                                            ip |-> 0, slots |-> at - 1]
               /\ (~Has(fields, name) /\ Has(methods, name)
                      /\ Callable(ValueOf(methods, name), InvokeArgc)) =>
                    /\ pc' = "run"
                    /\ vm'.stack = vm.stack
                    /\ Len(vm'.frames) = Len(vm.frames) + 1
                    /\ CurrentFrame(vm') = [pclosure |-> ValueOf(methods, name).as,
                                            ip |-> 0, slots |-> at - 1]]_vars

\* in Shadows f.m() has called the field's h and printed 2, and now g.m()
\* runs the method m of F with g, which has no field, in slot 0, while f's
\* field m is still there
C20_Witness ==
    /\ pc = "run"
    /\ lines = <<Shadows>>
    /\ vm.out = <<Shown(2)>>
    /\ Len(vm.frames) = 2
    /\ vm.heap[vm.heap[vm.heap[CurrentFrame(vm).pclosure].pfun].name].chars = <<109>>
    /\ is_obj_kind(vm.heap, vm.stack[CurrentFrame(vm).slots + 1], "instance")
    /\ NameMap(vm, vm.heap[vm.stack[CurrentFrame(vm).slots + 1].as].fields) = {}
    /\ \E a \in Addr : /\ vm.heap[a].kind = "instance"
                       /\ Has(NameMap(vm, vm.heap[a].fields), <<109>>)

\* the class objects whose name is `chars`
ClassesNamed(s, chars) ==
    {a \in Addr : s.heap[a].kind = "class" /\ s.heap[s.heap[a].name].chars = chars}

\* C19: once  class B < A  has been declared, B's method table gives every
\* name B declares B's own closure and every other method name of A the
\* closure A has for it (in Inherits: m is A's, n is B's own, and the line
\* prints 1 and 3); and a superclass that is not a class is a runtime error
C19_SubclassInheritsMethods ==
    /\ Ran(Inherits) =>
          /\ \A a \in ClassesNamed(vm, <<65>>) : \A b \in ClassesNamed(vm, <<66>>) :
                LET of_a == NameMap(vm, vm.heap[a].methods)
                    of_b == NameMap(vm, vm.heap[b].methods)
                IN /\ {e[1] : e \in of_b} = {<<109>>, <<110>>}
                   /\ ValueOf(of_b, <<109>>) = ValueOf(of_a, <<109>>)
                   /\ ValueOf(of_b, <<110>>) # ValueOf(of_a, <<110>>)
          /\ vm.out = <<Shown(1), Shown(3)>>
    /\ Ran(SuperNotAClass) => status = <<RuntimeError>>

(***************************************************************************)
(* The long forms of the opcodes (SpecLong).                               *)
(***************************************************************************)
LongForms ==
    {"OP_CONSTANT_LONG", "OP_DEFINE_GLOBAL_LONG", "OP_GET_GLOBAL_LONG",
     "OP_SET_GLOBAL_LONG", "OP_CLASS_LONG", "OP_GET_PROPERTY_LONG",
     "OP_SET_PROPERTY_LONG", "OP_METHOD_LONG", "OP_INVOKE_LONG"}

\* the frame that executes the next instruction, after the instruction
SameFrame(s) == s.frames[Len(vm.frames)]

\* C14: a long-form instruction that does not end the run leaves the ip of
\* its frame behind its three operand bytes (and the argument count, for
\* Invoke), and a session whose operands need the long forms prints and
\* returns what the same session does with the short forms
C14_LongFormsLikeShort ==
    /\ [](ref.phase = 2 =>
             /\ IsPrefix(vm.out, ref.out)
             /\ IsPrefix(status, ref.status)
             /\ (pc = "repl" /\ Len(lines) = Len(ref.session)) =>
                    (vm.out = ref.out /\ status = ref.status))
    /\ [][(pc = "run" /\ CurrentInstruction(vm) \in LongForms /\ pc' = "run") =>
            SameFrame(vm').ip = CurrentFrame(vm).ip
                + (IF CurrentInstruction(vm) = "OP_INVOKE_LONG" THEN 5 ELSE 4)]_vars

(***************************************************************************)
(* Compile errors: panic mode and had_error.                               *)
(***************************************************************************)
\* what the compile of the process's text did: its calls of error_at that
\* reported or were suppressed, and its calls of synchronize, in order
Events == vm.parser.events

\* reports of compile errors on stderr
Reported(s) == Cardinality({i \in 1..Len(s.parser.events) : s.parser.events[i] = "error"})

\* the text has been compiled and the process has not run out of memory
CompiledText == lines # <<>> /\ IsText(lines[1]) /\ pc # "exit"

\* no two reports without a synchronize between them
OneReportPerPanic ==
    \A i, j \in 1..Len(Events) :
        (i < j /\ Events[i] = "error" /\ Events[j] = "error")
            => \E k \in (i + 1)..(j - 1) : Events[k] = "synchronize"

\* an error is suppressed exactly when one was reported since the last
\* synchronize
SuppressedInPanic ==
    \A j \in 1..Len(Events) :
        Events[j] # "synchronize" =>
            (Events[j] = "suppressed" <=>
                 \E i \in 1..(j - 1) :
                     /\ Events[i] = "error"
                     /\ \A k \in (i + 1)..(j - 1) : Events[k] # "synchronize")

\* the texts of one erroneous statement among valid ones
AmongValid == UNION { OneErroneous(n) : n \in 2..MaxStatements }

\* C15: between two synchronisation points at most one compile error is
\* reported (once panic_mode is set every further error is suppressed until
\* synchronize clears it), and a program with a single erroneous statement
\* among several valid ones reports exactly one error.
C15_OneErrorPerStatement ==
    CompiledText =>
        /\ OneReportPerPanic
        /\ SuppressedInPanic
        /\ Len(vm.err) = Reported(vm)
        /\ lines[1] \in AmongValid => Len(vm.err) = 1

\* the part of C15 about panic mode alone
PanicSuppresses ==
    CompiledText => (OneReportPerPanic /\ SuppressedInPanic /\ Len(vm.err) = Reported(vm))

\* the texts of one erroneous statement, alone or among valid ones
WithOneError == UNION { OneErroneous(n) : n \in 1..MaxStatements }

\* a text is handed to vm_interpret
CompilesText == lines = <<>> /\ lines' # <<>> /\ IsText(lines'[1]) /\ pc' # "exit"

Invokes ==
    /\ pc = "run"
    /\ CurrentInstruction(vm) = "OP_INVOKE"
    /\ InvokeArgc < Len(vm.stack)

\* what OP_INVOKE does in the state s
ByInvoke(s) == vm_invoke(s, CurrentName(s), InvokeArgc)

\* what OP_GET_PROPERTY of the same name and then OP_CALL of the same count
\* do: the property is read with the receiver on top, then the arguments are
\* above it again and the value read is called
ByGetThenCall(s) ==
    LET argc == InvokeArgc
        args == SubSeq(s.stack, Len(s.stack) - argc + 1, Len(s.stack))
        RECURSIVE push(_, _)
        push(t, i) == IF i > argc THEN t ELSE push(vm_stack_push(t, args[i]), i + 1)
        got == vm_process_get_property(StackTop(s, Len(s.stack) - argc), CurrentName(s))
        pushed == push(got.s, 1)
    IN IF ~got.ok THEN got
       ELSE vm_call_value(pushed, vm_stack_peek(pushed, argc), argc)

\* the two leave the same thing behind: a runtime error, or the same frames
\* (so the same callee closure and slot base) over the same stack (so the
\* same value in the callee's slot 0 and the same arguments)
SameCall(a, b) ==
    IF ~a.ok \/ ~b.ok THEN ~a.ok /\ ~b.ok
    ELSE /\ a.s.frames = b.s.frames
         /\ a.s.stack = b.s.stack

\* C21: Invoke(name, argc) is equivalent to GetProperty(name) followed by
\* Call(argc): from the same state both end in a runtime error, or both leave
\* the same call frames, the same callee closure, the same value in the
\* callee's slot 0 and the same arguments, whether the name is a method, a
\* field holding a callable, or the receiver is not an instance
C21_InvokeIsGetThenCall == Invokes => SameCall(ByInvoke(vm), ByGetThenCall(vm))

\* f.b() of InvokesFields is next: the field b of the instance holds a bound
\* method, and both ways call its method with the instance in slot 0
C21_Witness ==
    /\ Invokes
    /\ lines = <<InvokesFields>>
    /\ vm.heap[CurrentName(vm)].chars = <<98>>
    /\ is_obj_kind(vm.heap, InvokeReceiver, "instance")
    /\ ByInvoke(vm).ok
    /\ Len(ByInvoke(vm).s.frames) = 2
    /\ ByInvoke(vm).s.stack[Len(vm.stack)] = InvokeReceiver

(***************************************************************************)
(* Calls with the wrong number of arguments (SpecInvoke).                  *)
(***************************************************************************)
\* the arity of a closure or of a native, -1 for any other value
ArityOf(s, value) ==
    IF is_obj_kind(s.heap, value, "closure") THEN s.heap[s.heap[value.as].pfun].arity
    ELSE IF is_obj_kind(s.heap, value, "native") THEN s.heap[value.as].arity
    ELSE -1

\* the next instruction calls a closure or a native with a number of arguments
\* that is not its arity
CallsWithWrongArity ==
    /\ pc = "run"
    /\ CurrentInstruction(vm) = "OP_CALL"
    /\ CurrentOperand(vm) < Len(vm.stack)
    /\ ArityOf(vm, vm_stack_peek(vm, CurrentOperand(vm))) \notin {-1, CurrentOperand(vm)}

\* C22: calling a closure or a native with a number of arguments other than
\* its arity is a runtime error that pushes no call frame and runs none of
\* the callee's code: vm_run returns the error, no frame is left, nothing has
\* been printed, and neither the heap nor the globals have changed
C22_WrongArityIsAnError ==
    [][CallsWithWrongArity =>
         /\ pc' = "repl"
         /\ status' = Append(status, RuntimeError)
         /\ vm'.err = Append(vm.err,
                 <<"Expected %d argumnets, but got %d.",
                   <<ArityOf(vm, vm_stack_peek(vm, CurrentOperand(vm))), CurrentOperand(vm)>> >>)
         /\ vm'.frames = <<>>
         /\ vm'.out = vm.out
         /\ vm'.heap = vm.heap
         /\ vm'.globals = vm.globals]_vars

\* h() of CallsWithFewer has been refused: h takes one argument
C22_Witness ==
    /\ pc = "repl"
    /\ lines = <<CallsWithFewer>>
    /\ status = <<RuntimeError>>
    /\ vm.err = << <<"Expected %d argumnets, but got %d.", <<1, 0>> >> >>
    /\ vm.out = <<>>
    /\ vm.frames = <<>>

(***************************************************************************)
(* The stack trace of a runtime error (SpecInvoke).                        *)
(***************************************************************************)
\* the entry the trace should have for frame i of s: the line of the
\* instruction the frame is executing (the next one of the frame on top, the
\* call that has not returned of any other) and the name of its function
TraceEntry(s, i) ==
    LET pfun == s.heap[s.heap[s.frames[i].pclosure].pfun]
    IN [line |-> chunk_get_line(pfun.chunk, IF i = Len(s.frames) THEN s.frames[i].ip
                                            ELSE s.frames[i].ip - 1),
        name |-> IF NULL = pfun.name THEN <<"script">>
                 ELSE <<"%s()", s.heap[pfun.name].chars>>]

\* C24: the stack trace of a runtime error has one `[line L] in ...` entry
\* for each active call frame, from the innermost frame outward, the last
\* one that of the top-level script, each with the line of the instruction
\* its frame was executing
C24_TraceHasEveryFrame ==
    [][(pc = "run" /\ vm'.err # vm.err) =>
         /\ Len(vm'.trace) = Len(vm.trace) + 1
         /\ vm'.trace[Len(vm'.trace)] =
                [k \in 1..Len(vm.frames) |-> TraceEntry(vm, Len(vm.frames) - k + 1)]]_vars

(***************************************************************************)
(* `and` and `or` (SpecLogic).                                             *)
(***************************************************************************)
\* what value_print writes for the value of a literal
LiteralText(e) ==
    CASE e.t = "num" -> <<"%g", e.n>>
      [] e.t = "str" -> <<"%s", e.chars>>
      [] OTHER -> <<e.t>>

\* the literal is falsey: nil, false and the number 0 are
LiteralIsFalsey(e) == e.t \in {"nil", "false"} \/ (e.t = "num" /\ e.n = 0)

\* a line of LogicPrograms has to run its right operand: that of `and` when
\* the left operand is truthy, that of `or` when it is falsey
RunsRight(line) ==
    IF line[2].e.t = "and" THEN ~LiteralIsFalsey(line[2].e.lhs)
    ELSE LiteralIsFalsey(line[2].e.lhs)

\* the value of the whole expression, as printed: what p returns if the right
\* operand runs, the left operand otherwise
ResultText(line) ==
    IF RunsRight(line) THEN LiteralText(line[1].body[2].e)
    ELSE LiteralText(line[2].e.lhs)

\* what p prints when the right operand runs
RightText(line) == IF RunsRight(line) THEN << <<"%g", 7>> >> ELSE <<>>

\* what the lines print, in order
RECURSIVE LogicOut(_)
LogicOut(ls) ==
    IF ls = <<>> THEN <<>>
    ELSE LogicOut(SubSeq(ls, 1, Len(ls) - 1)) \o RightText(ls[Len(ls)])
                                              \o <<ResultText(ls[Len(ls)])>>

\* the script is about to print the value of the expression
PrintsResult ==
    /\ pc = "run"
    /\ Len(vm.frames) = 1
    /\ CurrentInstruction(vm) = "OP_PRINT"

\* C23: the right operand of `and` runs exactly when the left operand is
\* truthy and that of `or` exactly when it is falsey; either way the
\* expression leaves one value on the stack, the left operand's when the right
\* operand is skipped and the right operand's otherwise
C23_ShortCircuit ==
    /\ PrintsResult =>
          /\ vm.out = LogicOut(SubSeq(lines, 1, Len(lines) - 1)) \o RightText(lines[Len(lines)])
          /\ Len(vm.stack) = 2
          /\ value_print(vm, vm_stack_peek(vm, 0)) = ResultText(lines[Len(lines)])
    /\ pc = "repl" => (vm.out = LogicOut(lines) /\ vm.err = <<>>)

\* print 0 and p();  is about to print 0: the number 0 is falsey, p has not
\* run
C23_Witness ==
    /\ PrintsResult
    /\ lines = <<PrintsAnd(Num(0))>>
    /\ vm.out = <<>>
    /\ vm.stack[2] = NUMBER_VAL(0)

(***************************************************************************)
(* The driver's command line (SpecMain).                                   *)
(***************************************************************************)
\* the usage message has been written to stderr
UsagePrinted == \E i \in 1..Len(vm.err) : vm.err[i] = <<"Usage: clox [path]\n", <<>> >>

\* C25: started with any number of arguments other than none or one script
\* path (argc other than 1 and 2), the driver prints the usage message and
\* exits with a status that is not zero
C25_UsageExitsNonZero ==
    (pc = "exit" /\ main.argc \notin {1, 2}) => (UsagePrinted /\ main.exit_code # 0)

(***************************************************************************)
(* resolve_upvalue (SpecResolve).                                          *)
(***************************************************************************)
\* the enclosing compilers of compiler ci in which resolve_local finds the name
EnclosingWith(s, ci, name) == {k \in 1..(ci - 1) : -1 # resolve_local(s, k, name).r}

\* the nearest of them, the one resolve_upvalue's recursion stops at
Nearest(s, ci, name) ==
    CHOOSE k \in EnclosingWith(s, ci, name) : \A j \in EnclosingWith(s, ci, name) : j <= k

\* local i of compiler k is the local the name resolves to from compiler ci
IsFound(s, ci, name, k, i) ==
    /\ EnclosingWith(s, ci, name) # {}
    /\ k = Nearest(s, ci, name)
    /\ i = resolve_local(s, k, name).r + 1

\* C26: when resolve_upvalue finds the name as a local of an enclosing
\* compiler, it sets is_captured on that local, the one at the index found in
\* the compiler where resolve_local succeeded, however deep the recursion,
\* and on no other local of any compiler
C26_CapturesTheFoundLocal ==
    pc = "compile" =>
        \A name \in ResolveNames :
            LET ci == Len(vm.compilers)
                after == resolve_upvalue(vm, ci, name).s.compilers
            IN \A k \in 1..ci : \A i \in 1..Len(vm.compilers[k].locals) :
                  after[k].locals[i].is_captured =
                      (vm.compilers[k].locals[i].is_captured \/ IsFound(vm, ci, name, k, i))

(***************************************************************************)
(* The dispatch loop of vm_run against the code the compiler wrote.        *)
(***************************************************************************)
\* vm.c vm_run: the opcodes its switch has a case for
HandledOps ==
    { OpCodes[i] : i \in 1..Len(OpCodes) }
        \cup {"OP_INVOKE", "OP_INVOKE_LONG", "OP_CLOSE_UPVALUE", "OP_CLASS", "OP_CLASS_LONG",
              "OP_GET_PROPERTY", "OP_GET_PROPERTY_LONG", "OP_SET_PROPERTY",
              "OP_SET_PROPERTY_LONG", "OP_METHOD", "OP_METHOD_LONG"}

\* compiler.c: the bytes the compiler writes for the instruction at `offset`
\* of `chunk`, its opcode included (emit_byte, emit_opcode_with_param,
\* emit_jump, emit_loop, function's pairs after OP_CLOSURE, and the argc byte
\* dot_handler and super_handler add)
EmittedWidth(s, chunk, offset) ==
    LET instruction == OpName(chunk.code[offset + 1])
    IN CASE instruction \in {"OP_CONSTANT", "OP_DEFINE_GLOBAL", "OP_GET_GLOBAL",
                             "OP_SET_GLOBAL", "OP_GET_LOCAL", "OP_SET_LOCAL",
                             "OP_GET_UPVALUE", "OP_SET_UPVALUE", "OP_CALL", "OP_CLASS",
                             "OP_GET_PROPERTY", "OP_SET_PROPERTY", "OP_METHOD",
                             "OP_GET_SUPER"} -> 2
         [] instruction \in {"OP_JUMP", "OP_JUMP_IF_FALSE", "OP_LOOP",
                             "OP_INVOKE", "OP_SUPER_INVOKE"} -> 3
         [] instruction \in {"OP_CONSTANT_LONG", "OP_DEFINE_GLOBAL_LONG",
                             "OP_GET_GLOBAL_LONG", "OP_SET_GLOBAL_LONG", "OP_CLASS_LONG",
                             "OP_GET_PROPERTY_LONG", "OP_SET_PROPERTY_LONG",
                             "OP_METHOD_LONG", "OP_GET_SUPER_LONG"} -> 4
         [] instruction \in {"OP_INVOKE_LONG", "OP_SUPER_INVOKE_LONG"} -> 5
         [] instruction = "OP_CLOSURE" ->
                2 + 2 * s.heap[chunk.constants.values[chunk.code[offset + 2] + 1].as].upvalue_count
         [] OTHER -> 1

\* the offsets of `chunk` at which the compiler wrote an opcode, from `offset` on
RECURSIVE InstructionStarts(_, _, _)
InstructionStarts(s, chunk, offset) ==
    IF offset >= Len(chunk.code) THEN {}
    ELSE {offset} \cup InstructionStarts(s, chunk, offset + EmittedWidth(s, chunk, offset))

\* C27: whenever vm_run is about to read an instruction, the frame's ip is at
\* an opcode the compiler wrote (never inside the operand bytes of one), and
\* that opcode has a case in vm_run's switch
C27_EveryOpcodeIsHandled ==
    (pc = "run" /\ ~vm.exited /\ vm.frames # <<>>) =>
        LET frame == vm.frames[Len(vm.frames)]
            chunk == vm.heap[vm.heap[frame.pclosure].pfun].chunk
        IN /\ frame.ip \in InstructionStarts(vm, chunk, 0)
           /\ OpName(chunk.code[frame.ip + 1]) \in HandledOps
(***************************************************************************)
(* The value stack and the open upvalues.                                  *)
(***************************************************************************)
\* more turns of vm_run's loop than a run that fills the stack takes
MaxTurns == 2 * STACK_MAX

\* vm.c vm_stack_push found stack_top at the end of stack[]
PushedOnFullStack(s) == s.crashed /\ Len(s.stack) = STACK_MAX

\* C28: the value stack never holds more than STACK_MAX values, and no run of
\* vm_run, from any state it is in, comes to a vm_stack_push with stack_top at
\* the end of the stack array
C28_PushesBelowTheEnd ==
    /\ Len(vm.stack) <= STACK_MAX
    /\ ~PushedOnFullStack(vm)
    /\ pc = "run" => ~PushedOnFullStack(vm_run_for([s |-> vm, result |-> ""], MaxTurns).s)

\* the upvalue objects that have not been freed
LiveUpvalues(s) == {u \in Upvalues(s) : ~s.heap[u].freed}

\* the upvalues on the list vm->open_upvalues
OnOpenList(s) == {OpenUpvalues(s)[i] : i \in 1..Len(OpenUpvalues(s))}

\* C29: an upvalue is on the open-upvalue list exactly when its location is a
\* slot of the value stack; one that is not on the list has been closed (its
\* location is its own `closed` field)
C29_OpenListIsTheOpenUpvalues ==
    \A u \in LiveUpvalues(vm) : u \in OnOpenList(vm) <=> vm.heap[u].location # 0

\* vm.c vm_run is about to call close_upvalues (case OP_CLOSE_UPVALUE and case
\* OP_RETURN), with the argument LastClosed on the state BeforeClose
ClosesUpvalues ==
    /\ pc = "run"
    /\ vm.frames # <<>>
    /\ CurrentInstruction(vm) \in {"OP_CLOSE_UPVALUE", "OP_RETURN"}
LastClosed ==
    IF CurrentInstruction(vm) = "OP_RETURN" THEN CurrentFrame(vm).slots + 1 ELSE Len(vm.stack)
BeforeClose ==
    IF CurrentInstruction(vm) = "OP_RETURN" THEN vm_stack_pop(vm) ELSE vm

\* the upvalues of the list `ups` with a slot below `last`, in the list's order
RECURSIVE Below(_, _, _)
Below(s, ups, last) ==
    IF ups = <<>> THEN <<>>
    ELSE IF s.heap[Head(ups)].location < last
    THEN <<Head(ups)>> \o Below(s, Tail(ups), last)
    ELSE Below(s, Tail(ups), last)

\* C30: close_upvalues(last) closes exactly the open upvalues whose slot is at
\* or above `last`: each gets the value its slot holds and leaves the list;
\* the open upvalues below `last` stay on the list, in order, with their
\* slots; nothing else changes, and this is what the instruction leaves
C30_ClosesFromLastUp ==
    [][ClosesUpvalues =>
            LET after == close_upvalues(BeforeClose, LastClosed)
            IN /\ \A u \in SeqRange(OpenUpvalues(vm)) :
                     IF vm.heap[u].location >= LastClosed
                     THEN /\ after.heap[u].location = 0
                          /\ after.heap[u].closed = StackAt(vm, vm.heap[u].location)
                          /\ u \notin SeqRange(OpenUpvalues(after))
                     ELSE /\ after.heap[u] = vm.heap[u]
                          /\ u \in SeqRange(OpenUpvalues(after))
               /\ OpenUpvalues(after) = Below(vm, OpenUpvalues(vm), LastClosed)
               /\ \A a \in DOMAIN vm.heap \ SeqRange(OpenUpvalues(vm)) :
                     after.heap[a] = vm.heap[a]
               /\ after.stack = BeforeClose.stack /\ after.frames = vm.frames
               /\ \A u \in Upvalues(vm) : vm'.heap[u] = after.heap[u]
               /\ OpenUpvalues(vm') = OpenUpvalues(after)]_vars

\* the block of ThreeSlots has closed c, which holds 3, while b and a are
\* still open below it
C30_Witness ==
    /\ pc = "run"
    /\ lines = <<ThreeSlots>>
    /\ Cardinality(OnOpenList(vm)) = 2
    /\ \E u \in LiveUpvalues(vm) : /\ vm.heap[u].location = 0
                                  /\ vm.heap[u].closed = NUMBER_VAL(3)
                                  /\ \A o \in OnOpenList(vm) : vm.heap[o].location # 0
(***************************************************************************)
(* Scopes, jumps and the line map.                                         *)
(***************************************************************************)
\* the script's frame is at the first instruction of the block that is the
\* first line of the session
AtBlockStart ==
    /\ pc = "run"
    /\ Len(lines) = 1
    /\ Len(vm.frames) = 1
    /\ CurrentFrame(vm).ip = 0

\* the script's frame has left the line's block: it is at the OP_NIL OP_RETURN
\* of emit_return, the last two bytes of the script's chunk
AfterBlock ==
    /\ pc = "run"
    /\ Len(lines) = 1
    /\ Len(vm.frames) = 1
    /\ CurrentFrame(vm).ip = Len(CurrentChunk(vm).code) - 2

\* C31: end_scope has emitted one OP_POP or OP_CLOSE_UPVALUE for each local of
\* the scope, so the frame's stack is as high after a block as before it: the
\* script's frame holds its one slot when it enters the block of the line and
\* again when it has left it
C31_BlockKeepsStackHeight ==
    /\ AtBlockStart => Len(vm.stack) = 1
    /\ AfterBlock => Len(vm.stack) = 1

\* the function whose chunk the current frame runs
CurrentFunction(s) == s.heap[CurrentFrame(s).pclosure].pfun

\* what the compiler meant the jump under the ip of the current frame for
JumpAt(s) ==
    {j \in s.audit.jumps : j.pfun = CurrentFunction(s) /\ j.from = CurrentFrame(s).ip + 1}

\* the distance of a jump from the end of its operand: forwards for the jumps
\* of patch_jump, backwards for those of emit_loop
Distance(j) == IF j.to > j.from THEN j.to - j.from - 2 ELSE j.from + 2 - j.to

FarJumps(s) == {j \in s.audit.jumps : Distance(j) > U16_MAX}

\* the next instruction of the script or function is a jump
AtJump ==
    /\ pc = "run"
    /\ CurrentInstruction(vm) \in {"OP_JUMP", "OP_JUMP_IF_FALSE", "OP_LOOP"}

\* the jump runs and lands where the compiler meant it to, or, a
\* OP_JUMP_IF_FALSE on a truthy value, on the byte after its operand
LandsAsPatched ==
    AtJump =>
        /\ pc' = "run"
        /\ Len(vm'.frames) = Len(vm.frames)
        /\ IF CurrentInstruction(vm) = "OP_JUMP_IF_FALSE" /\ ~is_falsey(vm_stack_peek(vm, 0))
           THEN CurrentFrame(vm').ip = CurrentFrame(vm).ip + 3
           ELSE /\ JumpAt(vm) # {}
                /\ \A j \in JumpAt(vm) : CurrentFrame(vm').ip = j.to

\* a line with a jump longer than U16_MAX is refused with a compile error
FarJumpIsRefused ==
    (pc = "repl" /\ FarJumps(vm') \ FarJumps(vm) # {}) =>
        /\ pc' = "repl"
        /\ status' = Append(status, "INTERPRET_COMPILE_ERROR")
        /\ \E i \in 1..Len(vm'.err) :
              vm'.err[i][1] \in {"Too much code to jump over.", "Loop body is too large"}

\* C32: a Jump, and a JumpIfFalse on a falsey value, lands on the code index
\* that was the end of the chunk when patch_jump patched it, a JumpIfFalse on
\* a truthy value goes on at the byte after its operand, a Loop lands on the
\* loop_start given to emit_loop, and a line with a jump or loop longer than
\* 65535 bytes is a compile error
C32_JumpsLandWherePatched == [][LandsAsPatched /\ FarJumpIsRefused]_vars

\* the loop of LoopsTwice has printed once and its OP_LOOP has landed on
\* loop_start, the read of b
C32_Witness ==
    /\ pc = "run"
    /\ lines = <<LoopsTwice>>
    /\ Len(vm.out) = 1
    /\ CurrentInstruction(vm) = "OP_GET_GLOBAL"
    /\ \E j \in vm.audit.jumps :
          /\ j.pfun = CurrentFunction(vm)
          /\ j.to < j.from
          /\ CurrentFrame(vm).ip = j.to

\* the bytes (1-based) of the written sequence that open a run of equal lines
RunStarts(written) == {i \in 1..Len(written) : i = 1 \/ written[i] # written[i - 1]}

\* C35: chunk_get_line(i) is the line passed with the i-th byte written, for
\* every byte of the chunk; the line map has one pair per maximal run of equal
\* lines, and its code_index values increase strictly
C35_LineOfEveryByte ==
    pc = "chunk" =>
        LET chunk == vm.heap[Cur(vm).pfun].chunk
        IN /\ Len(chunk.code) = Len(abs.written)
           /\ abs.asked # -1 => abs.line = abs.written[abs.asked + 1]
           /\ \A i \in 0..(Len(chunk.code) - 1) :
                 chunk_get_line(chunk, i) = abs.written[i + 1]
           /\ Len(chunk.lines) = Cardinality(RunStarts(abs.written))
           /\ \A k \in 1..(Len(chunk.lines) - 1) :
                 chunk.lines[k].code_index < chunk.lines[k + 1].code_index

\* ten bytes, each on another line than the one before: the line map has
\* grown past its first 8 pairs, and the line of the last byte was asked for
C35_Witness ==
    /\ pc = "chunk"
    /\ abs.written = <<1, 2, 1, 2, 1, 2, 1, 2, 1, 2>>
    /\ Len(vm.heap[Cur(vm).pfun].chunk.lines) = 10
    /\ vm.heap[Cur(vm).pfun].chunk.lines_capacity = 16
    /\ abs.asked = 9
    /\ abs.line = 2
(***************************************************************************)
(* SpecLoad: SpecTable with a fifth key, so that the globals (clock and    *)
(* readln are in them from vm_init on) can hold seven keys, or six and a   *)
(* tombstone, more than 0.75 x 8.  The load and the counters of the tables.*)
(***************************************************************************)
LoadKeys == TableKeys \cup {<<121>>}

InitLoad ==
    /\ vm = InternAll(Run(BlankVm(FALSE, FALSE), [name |-> "vm_init"]), LoadKeys)
    /\ pc = "table"
    /\ lines = <<>>
    /\ status = <<>>
    /\ ref = NoRef
    /\ abs = [k \in LoadKeys |-> Absent]
    /\ tableOp = NoTable
    /\ main = [argc |-> 1, exit_code |-> 0]

NextLoad ==
    \/ \E k \in LoadKeys, v \in TableValues : TableSet(k, v)
    \/ \E k \in LoadKeys : TableDelete(k)
    \/ \E k \in LoadKeys : TableGet(k)

SpecLoad == InitLoad /\ [][NextLoad]_vars

\* the buckets (1-based) of a table that hold a live key
LiveSlots(table) == {i \in 1..table.capacity : table.entries[i].key # NULL}

\* the buckets that hold a tombstone: no key, the value true
TombstoneSlots(table) ==
    {i \in 1..table.capacity :
        table.entries[i].key = NULL /\ ~IS_NIL(table.entries[i].value)}

\* the tables of the state: globals, strings, the methods of every class and
\* the fields of every instance
Tables(s) ==
    {s.globals, s.strings}
        \cup {s.heap[a].methods : a \in {x \in Addr : s.heap[x].kind = "class"}}
        \cup {s.heap[a].fields : a \in {x \in Addr : s.heap[x].kind = "instance"}}

\* C33: in every table the buckets that are not empty, live entries and
\* tombstones together, are at most 0.75 x capacity, so that a table with
\* buckets has an empty one for the probes to stop at
C33_LoadAtMostThreeQuarters ==
    \A t \in Tables(vm) :
        /\ 4 * Cardinality(LiveSlots(t) \cup TombstoneSlots(t)) <= 3 * t.capacity
        /\ t.capacity > 0 =>
              \E i \in 1..t.capacity : i \notin LiveSlots(t) \cup TombstoneSlots(t)

\* the globals are at the limit of their 8 buckets, a tombstone among them
C33_Witness ==
    /\ pc = "table"
    /\ vm.globals.capacity = 8
    /\ Cardinality(LiveSlots(vm.globals)) = 5
    /\ Cardinality(TombstoneSlots(vm.globals)) = 1
    /\ tableOp.op = "set"

\* C34: in every table count is the number of buckets with a live key and
\* tombstones_count the number of tombstone buckets
C34_CountersMatchSlots ==
    \A t \in Tables(vm) :
        /\ t.count = Cardinality(LiveSlots(t))
        /\ t.tombstones_count = Cardinality(TombstoneSlots(t))

\* count alone does match the live keys
CountMatchesLiveSlots == \A t \in Tables(vm) : t.count = Cardinality(LiveSlots(t))
(***************************************************************************)
(* The constants of a chunk (SpecLiterals).                                *)
(***************************************************************************)
\* the offsets of the OP_CONSTANT instructions of `chunk`: its literals
LiteralLoads(s, chunk) ==
    {o \in InstructionStarts(s, chunk, 0) : OpName(chunk.code[o + 1]) = "OP_CONSTANT"}

\* the constant that the OP_CONSTANT at offset o loads
LoadedConstant(chunk, o) == chunk.constants.values[chunk.code[o + 2] + 1]

\* C36: two string literals of one function with the same characters load
\* the same entry of its constants: their OP_CONSTANT have the same index
C36_StringLiteralsShareAnEntry ==
    (pc = "run" /\ ~vm.exited /\ vm.frames # <<>>) =>
        LET chunk == CurrentChunk(vm)
        IN \A p, q \in LiteralLoads(vm, chunk) :
              (/\ IS_OBJ(LoadedConstant(chunk, p))
               /\ LoadedConstant(chunk, p) = LoadedConstant(chunk, q))
                  => chunk.code[p + 2] = chunk.code[q + 2]
(***************************************************************************)
(* When the build as shipped collects (SpecThreshold).                     *)
(***************************************************************************)
\* C37: without DEBUG_STRESS_GC the last collection, if there was one, began
\* while reallocate served a request that grows a block, at a moment when
\* bytes_allocated, the growth counted, was above next_gc; and next_gc is
\* twice the bytes_allocated that the sweep left (1 MiB before any collection)
C37_CollectsOnGrowthPastThreshold ==
    ~vm.stress =>
        IF vm.audit.gc_count = 0 THEN vm.next_gc = 1024 * 1024
        ELSE /\ vm.audit.last.request[2] > vm.audit.last.request[1]
             /\ vm.audit.last.bytes_allocated > vm.audit.last.next_gc
             /\ vm.next_gc = 2 * vm.audit.last.left

\* the long line came after a line that left garbage: compiling it started a
\* collection when the constants grew to 1 MiB, and the sweep freed some bytes
C37_Witness ==
    /\ lines = <<PrintsConcatenated, ManyNumbers>>
    /\ pc = "repl"
    /\ vm.audit.gc_count = 1
    /\ vm.audit.last.request = <<16 * 32768, 16 * 65536>>
    /\ vm.audit.last.left < vm.audit.last.bytes_allocated
(***************************************************************************)
(* The marks between collections (SpecStress: every growth collects).      *)
(***************************************************************************)
\* the objects on the list vm->objects that are marked
MarkedObjects(s) == {a \in SeqRange(s.objects) : s.heap[a].is_marked}

\* C38: outside a collection no object of the heap is marked and the gray
\* stack is empty, and no collection began with a mark or a gray object left
\* by the one before
C38_NoMarkOutsideCollection ==
    ~vm.exited =>
        /\ MarkedObjects(vm) = {}
        /\ vm.gray_stack = <<>>
        /\ ~vm.audit.marks_carried

\* a script runs after three collections or more, with survivors on the heap
C38_Witness ==
    /\ pc = "run"
    /\ ~vm.exited
    /\ vm.audit.gc_count = 3
    /\ \E a \in SeqRange(vm.objects) : vm.heap[a].kind = "closure"

C40_BytesAllocatedIsHeld == pc # "exit" => vm.bytes_allocated = vm.audit.held
=============================================================================
